---- MODULE Spec2Model ----
(***************************************************************************)
(* Site Intelligence Pipeline of domsphere: the sitemap crawler            *)
(* (apps/api/helper/common.py), the page inventory reconciler              *)
(* (apps/api/db/crud.py) and the /site/map routes (apps/api/routes/site.py)*)
(* as a state machine.  One API worker serves one request at a time.       *)
(***************************************************************************)
EXTENDS Integers, Sequences, FiniteSets, TLC

VARIABLES
    pc,            \* position of the worker: "idle", "crawl", "stored", "return"
    now,           \* the wall clock read by _now(); advances with every operation
    site_docs,     \* the HTML documents the crawled site is able to serve
    site_pages,    \* table site_pages: the SitePage rows of the site
    site_map,      \* table site_map_pages: the SiteMapPage rows of the site
    req,           \* arguments of the /site/map request being served
    max_depth,     \* generate_site_map: depth argument (<<>> is None)
    max_pages,     \* generate_site_map: max_pages
    queue_budget,  \* generate_site_map: queue_budget
    mark_missing,  \* generate_site_map: mark_missing argument
    base_netloc,   \* generate_site_map: base_netloc
    seen,          \* generate_site_map: seen
    queue,         \* generate_site_map: queue of <<url, level>>
    pages,         \* generate_site_map: pages, the result list
    fetched,       \* history: <<url, level, html>> of every successful fetch of this crawl
    failed,        \* history: URLs whose fetch failed in this crawl
    enqueued,      \* history: URLs appended to the queue from an anchor in this crawl
    dropped,       \* history: a candidate was discarded because the queue was full
    last_op,       \* history: the registry operation that completed last
    writers,       \* concurrent registry writers: each one's session (see Writers)
    registry0,     \* history: table site_pages before the concurrent writers began
    uq_site_page,  \* whether table site_pages declares UNIQUE (site_id, url)
    dom,           \* the parsed document (soup) handed to _build_dom_atlas
    atlas,         \* the elements list _build_dom_atlas produced
    embeddings,    \* table site_embeddings: the SiteEmbedding rows of the site
    invocation,    \* history: the embedding or search invocation that ran last
    raw,           \* the URL handed to the canonicalizer, as it is written
    canon,         \* history: what the canonicalizer returned for it
    site_info,     \* table site_info: the SiteInfo records of the site
    site_atlas,    \* table site_atlas: the SiteAtlas records of the site
    refreshed      \* history: the single-page refresh that ran last

\* The state of the concurrent registry writers.
conc_vars == <<writers, registry0, uq_site_page>>

\* The state of the atlas builder.
atlas_vars == <<dom, atlas>>

\* The state of the embedding index.
index_vars == <<embeddings, invocation>>

\* The state of the URL canonicalizer.
canon_vars == <<raw, canon>>

\* The per-page records and the single-page refresh operations.
refresh_vars == <<site_info, site_atlas, refreshed>>

\* What the single-worker pipeline leaves alone.
aside_vars == <<conc_vars, atlas_vars, index_vars, canon_vars, refresh_vars>>

\* What the concurrent writers leave alone, beside the pipeline's variables.
conc_aside == <<atlas_vars, index_vars, canon_vars, refresh_vars>>

pipeline_vars == <<pc, now, site_docs, site_pages, site_map, req, max_depth, max_pages,
                   queue_budget, mark_missing, base_netloc, seen, queue, pages,
                   fetched, failed, enqueued, dropped, last_op>>

\* What the atlas builder leaves alone.
atlas_aside == <<pipeline_vars, conc_vars, index_vars, canon_vars, refresh_vars>>

\* What the URL canonicalizer leaves alone.
canon_aside == <<pipeline_vars, conc_vars, atlas_vars, index_vars, refresh_vars>>

\* What the embedding index leaves alone, beside site_pages and the clock.
index_aside == <<pc, site_docs, site_map, req, max_depth, max_pages, queue_budget,
                 mark_missing, base_netloc, seen, queue, pages, fetched, failed,
                 enqueued, dropped, last_op, conc_vars, atlas_vars, canon_vars, refresh_vars>>

vars == <<pc, now, site_docs, site_pages, site_map, req, max_depth, max_pages,
          queue_budget, mark_missing, base_netloc, seen, queue, pages,
          fetched, failed, enqueued, dropped, last_op, aside_vars>>

crawl_vars == <<max_depth, max_pages, queue_budget, mark_missing, base_netloc,
                seen, queue, pages, fetched, failed, enqueued, dropped>>

(***************************************************************************)
(* Bounds of the model.                                                    *)
(***************************************************************************)
MaxClock == 2     \* operations served in one behaviour of Spec
MaxDepth == 2     \* largest depth argument tried
MaxLimit == 3     \* largest limit argument tried

(***************************************************************************)
(* Program constants.                                                      *)
(***************************************************************************)
DEFAULT_SITEMAP_MAX_PAGES == 5000
SITEMAP_QUEUE_FANOUT == 4

Max(a, b) == IF a >= b THEN a ELSE b

\* Optional[int]: <<>> is None, <<n>> is the integer n.
NoneInt == <<>>
OptInts(lo, hi) == {NoneInt} \cup {<<n>> : n \in lo..hi}

(***************************************************************************)
(* URLs.  A URL is kept as urlparse() splits it; the query is the list of  *)
(* its "&"-separated pieces, each a key, whether an "=" follows, a value.  *)
(***************************************************************************)
Url(scheme, netloc, path, query, fragment) ==
    [scheme |-> scheme, netloc |-> netloc, path |-> path, params |-> "",
     query |-> query, fragment |-> fragment]

\* None / "" where the code holds an Optional[str] URL.
NoUrl == Url("", "", "", <<>>, "")

Piece(k, eq, v) == [k |-> k, eq |-> eq, v |-> v]

\* parse_qsl(query, keep_blank_values=True): empty pieces are skipped, a piece
\* without "=" keeps a blank value.
RECURSIVE parse_qsl(_)
parse_qsl(q) ==
    IF q = <<>> THEN <<>>
    ELSE LET p == Head(q)
         IN  IF p.k = "" /\ ~p.eq
             THEN parse_qsl(Tail(q))
             ELSE <<(<<p.k, p.v>>)>> \o parse_qsl(Tail(q))

\* urlencode(items): every pair is written key=value, in the order given.
urlencode(items) == [i \in 1..Len(items) |-> Piece(items[i][1], TRUE, items[i][2])]

normalize_internal_url(url) ==
    IF url.scheme = "" \/ url.netloc = ""
    THEN NoUrl
    ELSE [url EXCEPT !.path = IF @ = "" THEN "/" ELSE @,
                     !.fragment = "",
                     !.params = "",
                     !.query = urlencode(parse_qsl(@))]

\* urljoin(base, href) for the references the model serves: absolute URLs,
\* network-path references, absolute paths, and fragment-only references.
UsesRelative == {"http", "https", "ftp"}

urljoin(base, ref) ==
    IF ref.scheme # "" /\ (ref.scheme # base.scheme \/ ref.scheme \notin UsesRelative)
    THEN ref
    ELSE IF ref.netloc # ""
    THEN [ref EXCEPT !.scheme = base.scheme]
    ELSE IF ref.path = "" /\ ref.params = ""
    THEN [base EXCEPT !.query = IF ref.query # <<>> THEN ref.query ELSE @,
                      !.fragment = ref.fragment]
    ELSE [ref EXCEPT !.scheme = base.scheme, !.netloc = base.netloc]

(***************************************************************************)
(* The crawled site and what its pages may contain.                        *)
(***************************************************************************)
SiteNetloc == "site.test"
RootUrl == Url("http", SiteNetloc, "/", <<>>, "")
PageA == Url("http", SiteNetloc, "/a", <<>>, "")
PageB == Url("http", SiteNetloc, "/b", <<>>, "")
SitePages == {RootUrl, PageA, PageB}

HrefRoot == Url("", "", "/", <<>>, "")
HrefA == Url("", "", "/a", <<>>, "")
HrefB == Url("", "", "/b", <<>>, "")
HrefAFrag == Url("", "", "/a", <<>>, "top")
HrefSelf == Url("", "", "", <<>>, "top")
HrefOffHost == Url("http", "other.test", "/a", <<>>, "")
HrefFtp == Url("ftp", SiteNetloc, "/a", <<>>, "")
HrefMailto == Url("mailto", "", "x", <<>>, "")

\* An HTML document: what the crawler reads of it is its anchors, in
\* document order, and its bytes (named by `body`).
Html(body, hrefs) == [body |-> body, hrefs |-> hrefs]

\* A page with more anchors than any queue budget the bounded limits give.
FanOutLen == SITEMAP_QUEUE_FANOUT * Max(2, MaxLimit) + 1
HtmlLeaf == Html("leaf", <<>>)
HtmlToA == Html("to-a", <<HrefA>>)
HtmlToAB == Html("to-a-b", <<HrefA, HrefB>>)
HtmlBack == Html("back", <<HrefRoot, HrefSelf, HrefB>>)
HtmlDup == Html("dup", <<HrefAFrag, HrefA, HrefB, HrefB>>)
HtmlForeign == Html("foreign", <<HrefOffHost, HrefFtp, HrefMailto, HrefB>>)
HtmlFanOut == Html("fan-out", [i \in 1..FanOutLen |-> IF i < FanOutLen THEN HrefA ELSE HrefB])

AllDocs == {HtmlLeaf, HtmlToA, HtmlToAB, HtmlBack, HtmlDup, HtmlForeign, HtmlFanOut}
FewDocs == {HtmlLeaf, HtmlToAB}


(***************************************************************************)
(* Sitemap crawler: generate_site_map.                                     *)
(***************************************************************************)
\* Optional fetch result: <<>> is None (the fetch failed), <<html>> the text.
FetchFailed == <<>>

\* _fetch_html(url): one GET; what comes back is the site's choice.
fetch_html(url) ==
    IF url = NoUrl THEN {FetchFailed}
    ELSE {FetchFailed} \cup {<<h>> : h \in site_docs}

\* hashlib.sha1(html).hexdigest(): equal bytes, equal digest.
sha1_hexdigest(html) == html.body

\* SiteMapPage(url=current, meta=page_meta): page_meta always holds "hash".
site_map_page(url, html) == [url |-> url, meta |-> <<[hash |-> sha1_hexdigest(html)]>>]

MaxPagesOf(limit) ==
    IF limit # NoneInt THEN Max(1, limit[1]) ELSE DEFAULT_SITEMAP_MAX_PAGES

QueueBudgetOf(mp) == Max(SITEMAP_QUEUE_FANOUT * 2, mp * SITEMAP_QUEUE_FANOUT)

\* while queue and len(pages) < max_pages
LoopCondOffByOne(q, ps, mp) == q # <<>> /\ Len(ps) <= mp
LoopCond(q, ps, mp) == q # <<>> /\ Len(ps) < mp

\* queue.popleft(): the queue that is left
PopLeftPeek(q) == q
PopLeft(q) == Tail(q)

\* if current in seen: continue
AlreadySeenNever(current, seen_urls) == FALSE
AlreadySeen(current, seen_urls) == current \in seen_urls

\* seen.add(current)
MarkSeenNothing(seen_urls, current) == seen_urls
MarkSeen(seen_urls, current) == seen_urls \cup {current}

\* if level >= max_depth: continue     (max_depth is math.inf when depth is None)
AtMaxDepthOffByOne(level, depth) == depth # NoneInt /\ level > depth[1]
AtMaxDepth(level, depth) == depth # NoneInt /\ level >= depth[1]

\* if parsed_candidate.scheme not in {"http", "https"}: continue
HttpSchemeAny(candidate) == TRUE
HttpScheme(candidate) == candidate.scheme \in {"http", "https"}

\* if parsed_candidate.netloc != base_netloc: continue
SameNetlocAny(candidate, netloc) == TRUE
SameNetloc(candidate, netloc) == candidate.netloc = netloc

\* if len(queue) >= queue_budget: continue
QueueFullOffByOne(q, budget) == Len(q) > budget
QueueFull(q, budget) == Len(q) >= budget

\* The for-loop over the anchors of one page.  acc is the queue so far with
\* the history of what was appended and whether a candidate was discarded.
RECURSIVE enqueue_anchors(_, _, _, _, _)
enqueue_anchors(hrefs, acc, current, level, seen_urls) ==
    IF hrefs = <<>> THEN acc
    ELSE LET href == Head(hrefs)
             candidate == normalize_internal_url(urljoin(current, href))
             skip == \/ href = NoUrl
                     \/ candidate = NoUrl
                     \/ ~HttpScheme(candidate)
                     \/ ~SameNetloc(candidate, base_netloc)
                     \/ candidate \in seen_urls
             next == IF skip THEN acc
                     ELSE IF QueueFull(acc.queue, queue_budget)
                     THEN [acc EXCEPT !.dropped = TRUE]
                     ELSE [acc EXCEPT !.queue = Append(@, <<candidate, level + 1>>),
                                      !.enqueued = @ \cup {candidate}]
         IN  enqueue_anchors(Tail(hrefs), next, current, level, seen_urls)

\* Lines 418-431: the set-up of a crawl.  An unusable start URL returns an
\* empty response at once, without storing anything.
generate_site_map(start_url, depth, limit, mm) ==
    LET normalized_start == normalize_internal_url(start_url)
        mp == MaxPagesOf(limit)
    IN  /\ max_depth' = depth
        /\ max_pages' = mp
        /\ queue_budget' = QueueBudgetOf(mp)
        /\ mark_missing' = mm
        /\ seen' = {}
        /\ pages' = <<>>
        /\ fetched' = {}
        /\ failed' = {}
        /\ enqueued' = {}
        /\ dropped' = FALSE
        /\ IF normalized_start = NoUrl
           THEN /\ pc' = "return"
                /\ base_netloc' = ""
                /\ queue' = <<>>
           ELSE /\ pc' = "crawl"
                /\ base_netloc' = normalized_start.netloc
                /\ queue' = <<(<<normalized_start, 0>>)>>

\* Lines 433-469: one iteration of the while-loop.
CrawlStep ==
    /\ pc = "crawl"
    /\ LoopCond(queue, pages, max_pages)
    /\ LET current == Head(queue)[1]
           level == Head(queue)[2]
           rest == PopLeft(queue)
       IN  IF AlreadySeen(current, seen)
           THEN /\ queue' = rest
                /\ UNCHANGED <<seen, pages, fetched, failed, enqueued, dropped>>
           ELSE /\ seen' = MarkSeen(seen, current)
                /\ \E got \in fetch_html(current) :
                     IF got = FetchFailed
                     THEN /\ failed' = failed \cup {current}
                          /\ queue' = rest
                          /\ UNCHANGED <<pages, fetched, enqueued, dropped>>
                     ELSE LET html == got[1]
                              acc == IF AtMaxDepth(level, max_depth)
                                     THEN [queue |-> rest, enqueued |-> enqueued,
                                           dropped |-> dropped]
                                     ELSE enqueue_anchors(html.hrefs,
                                            [queue |-> rest, enqueued |-> enqueued,
                                             dropped |-> dropped],
                                            current, level, MarkSeen(seen, current))
                          IN  /\ pages' = Append(pages, site_map_page(current, html))
                              /\ fetched' = fetched \cup {<<current, level, html>>}
                              /\ queue' = acc.queue
                              /\ enqueued' = acc.enqueued
                              /\ dropped' = acc.dropped
                              /\ UNCHANGED failed
    /\ UNCHANGED <<pc, now, site_docs, aside_vars, site_pages, site_map, req, max_depth, max_pages,
                   queue_budget, mark_missing, base_netloc, last_op>>


(***************************************************************************)
(* Page inventory: the site_pages and site_map_pages tables (db/crud.py).  *)
(* A timestamp is an Optional[int] reading of the clock; a meta is an      *)
(* Optional dict, <<>> for None.                                           *)
(***************************************************************************)
NoMeta == <<>>
NoHash == ""
NoTime == <<>>

Range(f) == {f[i] : i \in DOMAIN f}

\* SitePage(site_id=..., url=url, status="active", ...) of bulk_upsert_site_pages
new_site_page(url, meta, content_hash, last_crawled_at, t) ==
    [url |-> url, status |-> "active", meta |-> meta, content_hash |-> content_hash,
     first_seen_at |-> <<t>>, last_seen_at |-> <<t>>, last_crawled_at |-> last_crawled_at,
     info_last_refreshed_at |-> NoTime, atlas_last_refreshed_at |-> NoTime,
     embeddings_last_refreshed_at |-> NoTime, updated_at |-> NoTime]

\* The else-branch of the upsert loop: an existing record is refreshed.
refresh_site_page(record, meta, content_hash, last_crawled_at, t) ==
    [record EXCEPT !.status = "active",
                   !.last_seen_at = <<t>>,
                   !.last_crawled_at = last_crawled_at,
                   !.meta = IF meta # NoMeta THEN meta ELSE @,
                   !.content_hash = IF content_hash # NoHash THEN content_hash ELSE @]

\* for page in pages: ...   (existing is the dict read before the loop)
RECURSIVE upsert_loop(_, _, _, _)
upsert_loop(ps, existing_urls, table, t) ==
    IF ps = <<>> THEN table
    ELSE LET page == Head(ps)
             last_crawled_at == IF page.last_crawled_at # NoTime
                                THEN page.last_crawled_at ELSE <<t>>
         IN  IF page.url = NoUrl
             THEN upsert_loop(Tail(ps), existing_urls, table, t)
             ELSE IF page.url \notin existing_urls
             THEN upsert_loop(Tail(ps), existing_urls,
                    table \cup {new_site_page(page.url, page.meta, page.content_hash,
                                              last_crawled_at, t)}, t)
             ELSE upsert_loop(Tail(ps), existing_urls,
                    {IF r.url = page.url
                     THEN refresh_site_page(r, page.meta, page.content_hash,
                                            last_crawled_at, t)
                     ELSE r : r \in table}, t)

\* if existing and mark_missing:
SweepAlways(existing_urls, mm) == existing_urls # {}
SweepNever(existing_urls, mm) == FALSE
SweepEnabled(existing_urls, mm) == existing_urls # {} /\ mm

\* the mark-missing sweep over the rows read before the loop
mark_gone_sweep_seen(table, existing_urls, seen_urls, mm, t) ==
    IF SweepEnabled(existing_urls, mm)
    THEN {IF r.url \in existing_urls /\ r.status # "gone"
          THEN [r EXCEPT !.status = "gone", !.updated_at = <<t>>]
          ELSE r : r \in table}
    ELSE table
mark_gone_sweep(table, existing_urls, seen_urls, mm, t) ==
    IF SweepEnabled(existing_urls, mm)
    THEN {IF r.url \in existing_urls /\ r.url \notin seen_urls /\ r.status # "gone"
          THEN [r EXCEPT !.status = "gone", !.updated_at = <<t>>]
          ELSE r : r \in table}
    ELSE table

bulk_upsert_site_pages(table, ps, mm, t) ==
    IF ps = <<>> THEN table
    ELSE LET seen_urls == {p.url : p \in Range(ps)} \ {NoUrl}
             existing_urls == {r.url : r \in table}
         IN  mark_gone_sweep(upsert_loop(ps, existing_urls, table, t),
                             existing_urls, seen_urls, mm, t)

\* upsert_site_map_pages(site_id, pages, replace=...)
RECURSIVE site_map_loop(_, _, _)
site_map_loop(ps, current_urls, table) ==
    IF ps = <<>> THEN table
    ELSE LET page == Head(ps)
         IN  IF page.url = NoUrl
             THEN site_map_loop(Tail(ps), current_urls, table)
             ELSE IF page.url \in current_urls
             THEN site_map_loop(Tail(ps), current_urls,
                    {IF r.url = page.url THEN [r EXCEPT !.meta = page.meta] ELSE r
                       : r \in table})
             ELSE site_map_loop(Tail(ps), current_urls,
                    table \cup {[url |-> page.url, meta |-> page.meta]})

ReplaceAlways(replace) == TRUE
ReplaceRows(replace) == replace

upsert_site_map_pages(table, ps, replace) ==
    LET current_urls == {r.url : r \in table}
        urls_seen == {p.url : p \in Range(ps)} \ {NoUrl}
        upserted == site_map_loop(ps, current_urls, table)
    IN  IF ReplaceRows(replace)
        THEN {r \in upserted : ~(r.url \in current_urls /\ r.url \notin urls_seen)}
        ELSE upserted

\* The dicts store_site_map_pages hands to bulk_upsert_site_pages.
page_payload(ps, t) ==
    [i \in 1..Len(ps) |->
        [url |-> ps[i].url, meta |-> ps[i].meta,
         content_hash |-> IF ps[i].meta # NoMeta THEN ps[i].meta[1].hash ELSE NoHash,
         last_crawled_at |-> <<t>>]]

NoOp == [kind |-> "none", urls |-> {}, mark_missing |-> FALSE, url |-> NoUrl, at |-> 0]

\* store_site_map_pages(site_id, pages, mark_missing=...): nothing is written,
\* and no clock is read, for an empty list.
store_site_map_pages_any(ps, mm) ==
    /\ site_map' = upsert_site_map_pages(site_map, ps, mm)
    /\ site_pages' = bulk_upsert_site_pages(site_pages, page_payload(ps, now), mm, now)
    /\ now' = now + 1
    /\ last_op' = [kind |-> "store", urls |-> {p.url : p \in Range(ps)},
                   mark_missing |-> mm, url |-> NoUrl, at |-> now]
store_site_map_pages(ps, mm) ==
    IF ps = <<>>
    THEN UNCHANGED <<site_map, site_pages, now, last_op>>
    ELSE /\ site_map' = upsert_site_map_pages(site_map, ps, mm)
         /\ site_pages' = bulk_upsert_site_pages(site_pages, page_payload(ps, now), mm, now)
         /\ now' = now + 1
         /\ last_op' = [kind |-> "store", urls |-> {p.url : p \in Range(ps)},
                        mark_missing |-> mm, url |-> NoUrl, at |-> now]

\* touch_site_page_info / _atlas / _embedding: `field` is the refresh
\* timestamp the variant writes.
TouchKeepStatus(status) == status
TouchStatus(status) == IF status = "gone" THEN "active" ELSE status

touch_site_page(table, url, field, t) ==
    IF url \notin {r.url : r \in table}
    THEN table \cup {[new_site_page(url, NoMeta, NoHash, NoTime, t) EXCEPT ![field] = <<t>>]}
    ELSE {IF r.url = url
          THEN [r EXCEPT ![field] = <<t>>, !.last_seen_at = <<t>>,
                         !.status = TouchStatus(@)]
          ELSE r : r \in table}


(***************************************************************************)
(* Routes /site/map (routes/site.py).                                      *)
(***************************************************************************)
\* Site.parent_url of the registered site
ParentUrl == RootUrl

\* Optional[str] url of a request: <<>> is None.
NoneUrl == <<>>

\* urlparse(u).hostname, for the netlocs of the model (no port, no userinfo,
\* lower case)
hostname(u) == u.netloc

\* resolve_site_url(site_id, url): a URL without a scheme is joined to the
\* site root.
resolve_site_url(url) ==
    LET base == ParentUrl
        candidate == IF url # NoneUrl /\ url[1] # NoUrl
                     THEN IF base # NoUrl /\ url[1].scheme = ""
                          THEN urljoin(base, url[1])
                          ELSE url[1]
                     ELSE base
        normalized == normalize_internal_url(candidate)
    IN  IF candidate = NoUrl \/ normalized = NoUrl THEN NoUrl
        ELSE IF /\ base # NoUrl
                /\ hostname(base) # "" /\ hostname(normalized) # ""
                /\ hostname(normalized) # hostname(base)
        THEN NoUrl
        ELSE normalized

\* get_site_map_response(site_id).pages: the active pages, or else the
\* legacy sitemap rows
site_map_response_urls ==
    LET active == {r.url : r \in {x \in site_pages : x.status = "active"}}
    IN  IF active # {} THEN active ELSE {r.url : r \in site_map}

NoReq == [route |-> "none", url |-> NoneUrl, depth |-> NoneInt, limit |-> NoneInt,
          force |-> FALSE]

\* custom_request = any(value is not None for value in (url, depth, limit))
custom_request(url, depth, limit) ==
    url # NoneUrl \/ depth # NoneInt \/ limit # NoneInt

\* mark_missing=url is None
MarkMissingArg(url, depth, limit) == url = NoneUrl

\* The body shared by GET /site/map and POST /site/map.  force is the force
\* handed to _build_full_sitemap.
serve_site_map(route, url, depth, limit, force) ==
    /\ req' = [route |-> route, url |-> url, depth |-> depth, limit |-> limit,
               force |-> force]
    /\ IF ~custom_request(url, depth, limit)
       THEN IF ~force /\ site_map_response_urls # {}
            THEN \* the stored sitemap is returned
                 /\ pc' = "return"
                 /\ UNCHANGED crawl_vars
            ELSE IF resolve_site_url(NoneUrl) = NoUrl
            THEN \* HTTP 400 START_URL_REQUIRED
                 /\ pc' = "return"
                 /\ UNCHANGED crawl_vars
            ELSE generate_site_map(resolve_site_url(NoneUrl), NoneInt, NoneInt, TRUE)
       ELSE IF resolve_site_url(url) = NoUrl
            THEN \* HTTP 400 START_URL_REQUIRED
                 /\ pc' = "return"
                 /\ UNCHANGED crawl_vars
            ELSE generate_site_map(resolve_site_url(url), depth, limit,
                                   MarkMissingArg(url, depth, limit))
    /\ UNCHANGED <<now, site_docs, aside_vars, site_pages, site_map, last_op>>

ReqUrls == {NoneUrl, <<HrefA>>, <<HrefOffHost>>}

\* GET /site/map
GetSiteMap ==
    /\ pc = "idle"
    /\ now < MaxClock
    /\ \E url \in ReqUrls, depth \in OptInts(0, MaxDepth - 1),
          limit \in OptInts(0, MaxLimit - 1), force \in BOOLEAN :
         serve_site_map("GET", url, depth, limit, force)

\* POST /site/map: a request without url, depth and limit forces a full build
BuildSiteMap ==
    /\ pc = "idle"
    /\ now < MaxClock
    /\ \E url \in ReqUrls, depth \in OptInts(0, MaxDepth - 1),
          limit \in OptInts(0, MaxLimit - 1) :
         serve_site_map("POST", url, depth, limit, TRUE)

\* Lines 433 and 471 of generate_site_map: the loop is left and the result is
\* stored.
CrawlStore ==
    /\ pc = "crawl"
    /\ ~LoopCond(queue, pages, max_pages)
    /\ store_site_map_pages(pages, mark_missing)
    /\ pc' = "stored"
    /\ UNCHANGED <<site_docs, aside_vars, req, crawl_vars>>

\* The response is returned; the locals of the call are gone.
Return ==
    /\ pc \in {"stored", "return"}
    /\ pc' = "idle"
    /\ req' = NoReq
    /\ max_depth' = NoneInt
    /\ max_pages' = 0
    /\ queue_budget' = 0
    /\ mark_missing' = FALSE
    /\ base_netloc' = ""
    /\ seen' = {}
    /\ queue' = <<>>
    /\ pages' = <<>>
    /\ fetched' = {}
    /\ failed' = {}
    /\ enqueued' = {}
    /\ dropped' = FALSE
    /\ UNCHANGED <<now, site_docs, aside_vars, site_pages, site_map, last_op>>

\* A single-page refresh touches the page it names; the model names the
\* site's pages.
touch(kind, field) ==
    /\ pc = "idle"
    /\ now < MaxClock
    /\ \E url \in SitePages :
         /\ site_pages' = touch_site_page(site_pages, url, field, now)
         /\ last_op' = [kind |-> kind, urls |-> {url}, mark_missing |-> FALSE,
                        url |-> url, at |-> now]
    /\ now' = now + 1
    /\ UNCHANGED <<pc, site_docs, aside_vars, site_map, req, crawl_vars>>

TouchSitePageInfo == touch("touch_info", "info_last_refreshed_at")
TouchSitePageAtlas == touch("touch_atlas", "atlas_last_refreshed_at")
TouchSitePageEmbedding == touch("touch_embedding", "embeddings_last_refreshed_at")

\* A direct call of generate_site_map on a site whose inventory is empty.
StartUrls == {RootUrl, PageA, Url("http", SiteNetloc, "", <<>>, "top"), NoUrl}

CallGenerateSiteMap ==
    /\ pc = "idle"
    /\ now = 0
    /\ \E start_url \in StartUrls, depth \in OptInts(0, MaxDepth),
          limit \in OptInts(0, MaxLimit), mm \in BOOLEAN :
         /\ generate_site_map(start_url, depth, limit, mm)
         /\ req' = [route |-> "call", url |-> <<start_url>>, depth |-> depth,
                    limit |-> limit, force |-> FALSE]
    /\ UNCHANGED <<now, site_docs, aside_vars, site_pages, site_map, last_op>>

\* The inventory of a site that has been crawled in full twice: at time -2
\* the crawl saw /, /a and /b, at time -1 it saw / and /a.
PastCrawl(urls) == [i \in 1..Len(urls) |-> site_map_page(urls[i], HtmlLeaf)]
CrawledTwicePages ==
    bulk_upsert_site_pages(
        bulk_upsert_site_pages({}, page_payload(PastCrawl(<<RootUrl, PageA, PageB>>), -2),
                               TRUE, -2),
        page_payload(PastCrawl(<<RootUrl, PageA>>), -1), TRUE, -1)
CrawledTwiceMap ==
    upsert_site_map_pages(
        upsert_site_map_pages({}, PastCrawl(<<RootUrl, PageA, PageB>>), TRUE),
        PastCrawl(<<RootUrl, PageA>>), TRUE)

Inventories == {[site_pages |-> {}, site_map |-> {}],
                [site_pages |-> CrawledTwicePages, site_map |-> CrawledTwiceMap]}

\* No concurrent writer is at work.
ConcIdle ==
    /\ writers = <<>>
    /\ registry0 = {}
    /\ uq_site_page = TRUE

\* No document is being processed by the atlas builder.
AtlasIdle ==
    /\ dom = <<>>
    /\ atlas = <<>>

\* No embedding is stored and no embedding or search invocation has run.
IndexIdle ==
    /\ embeddings = {}
    /\ invocation = <<>>

\* Everything outside the single-worker pipeline is at rest.
CanonIdle ==
    /\ raw = <<>>
    /\ canon = <<>>

\* No info or atlas record is stored and no single-page refresh has run.
RefreshIdle ==
    /\ site_info = {}
    /\ site_atlas = {}
    /\ refreshed = <<>>

AsideIdle == ConcIdle /\ AtlasIdle /\ IndexIdle /\ CanonIdle /\ RefreshIdle

InitWith(docs, inventories) ==
    /\ pc = "idle"
    /\ now = 0
    /\ site_docs = docs
    /\ \E inv \in inventories :
         /\ site_pages = inv.site_pages
         /\ site_map = inv.site_map
    /\ req = NoReq
    /\ max_depth = NoneInt
    /\ max_pages = 0
    /\ queue_budget = 0
    /\ mark_missing = FALSE
    /\ base_netloc = ""
    /\ seen = {}
    /\ queue = <<>>
    /\ pages = <<>>
    /\ fetched = {}
    /\ failed = {}
    /\ enqueued = {}
    /\ dropped = FALSE
    /\ last_op = NoOp

Init == InitWith(FewDocs, Inventories) /\ AsideIdle

Next ==
    \/ GetSiteMap
    \/ BuildSiteMap
    \/ CrawlStep
    \/ CrawlStore
    \/ Return
    \/ TouchSitePageInfo
    \/ TouchSitePageAtlas
    \/ TouchSitePageEmbedding

Spec == Init /\ [][Next]_vars

\* One crawl of a site that serves every document of the model.
InitCrawl == InitWith(AllDocs, {[site_pages |-> {}, site_map |-> {}]}) /\ AsideIdle

NextCrawl ==
    \/ CallGenerateSiteMap
    \/ CrawlStep
    \/ CrawlStore
    \/ Return

SpecCrawl ==
    /\ InitCrawl
    /\ [][NextCrawl]_vars
    /\ WF_vars(CrawlStep)
    /\ WF_vars(CrawlStore)
    /\ WF_vars(Return)


(***************************************************************************)
(* Properties.                                                             *)
(***************************************************************************)
PageUrls(ps) == {p.url : p \in Range(ps)}
ActiveUrls(table) == {r.url : r \in {x \in table : x.status = "active"}}
GoneUrls(table) == {r.url : r \in {x \in table : x.status = "gone"}}
RowUrls(table) == {r.url : r \in table}
RowsOutside(table, urls) == {r \in table : r.url \notin urls}

\* A full reconciliation has just completed: generate_site_map has stored its
\* result with mark_missing=True.
FullReconciliationDone == pc = "stored" /\ mark_missing

ActiveExactly(urls) ==
    /\ ActiveUrls(site_pages) = urls
    /\ \A r \in site_pages : r.url \notin urls => r.status = "gone"

\* C1, as stated: after a full reconciliation (mark_missing=True) the active
\* pages are exactly the URLs the crawl returned and every other page is
\* gone, whatever the crawl returned.
C1_ActiveEqualsCrawl_AnyResult ==
    FullReconciliationDone => ActiveExactly(PageUrls(pages))

\* C1, amended: after a full reconciliation (mark_missing=True) of a crawl
\* that returned at least one page, the active pages are exactly the URLs the
\* crawl returned and every other page of the site is gone.
C1_ActiveEqualsNonEmptyCrawl ==
    (FullReconciliationDone /\ pages # <<>>) => ActiveExactly(PageUrls(pages))

\* C1 witness: a full reconciliation of a non-empty crawl that has just put a
\* page it did not see to gone while the pages it saw are active.
C1_Witness ==
    /\ FullReconciliationDone
    /\ pages # <<>>
    /\ last_op.kind = "store" /\ last_op.at = now - 1
    /\ \E r \in site_pages : r.status = "gone" /\ r.updated_at = <<last_op.at>>
    /\ ActiveUrls(site_pages) = PageUrls(pages)

\* C2: a page that is active before a mark-missing crawl and whose fetch
\* fails during that crawl is not put to gone by the crawl's reconciliation.
C2_FetchFailureIsNoUpdate ==
    [][(pc = "crawl" /\ pc' = "stored" /\ mark_missing)
         => \A u \in failed :
              u \in ActiveUrls(site_pages) => u \notin GoneUrls(site_pages')]_vars

\* The request being served is scoped: it names a start URL other than the
\* site root, a depth limit or a page limit.
ScopedRequest ==
    /\ req.route \in {"GET", "POST"}
    /\ \/ req.depth # NoneInt
       \/ req.limit # NoneInt
       \/ (req.url # NoneUrl /\ resolve_site_url(req.url) # resolve_site_url(NoneUrl))

\* C3: whenever a sitemap build is scoped, generate_site_map runs with
\* mark_missing disabled.
C3_ScopedBuildNeverMarksMissing ==
    (pc \in {"crawl", "stored"} /\ ScopedRequest) => ~mark_missing


\* The canonical start URL of the generate_site_map call in progress.
CrawlStart == normalize_internal_url(req.url[1])

\* C4: every crawl leaves its loop, with the queue empty or the page budget
\* reached, whatever the pages link to and whichever fetches fail.
C4_CrawlTerminates ==
    (pc = "crawl") ~> (pc = "stored" /\ (queue = <<>> \/ Len(pages) >= max_pages))

\* C4 witness: a crawl has ended although a page below the start page links
\* back to the site root and to itself, and a fetch has failed.
C4_Witness ==
    /\ pc = "stored"
    /\ failed # {}
    /\ \E f \in fetched : f[3] = HtmlBack /\ f[2] >= 1 /\ AtMaxDepth(f[2], max_depth) = FALSE

\* C5: no URL occurs twice in the page list of a crawl.
C5_EachUrlAtMostOnce ==
    \A i, j \in 1..Len(pages) : pages[i].url = pages[j].url => i = j

\* C5 witness: a crawl whose start page links twice to /a and twice to /b
\* has returned both pages.
C5_Witness ==
    /\ pc = "stored"
    /\ \E f \in fetched : f[3] = HtmlDup /\ f[2] = 0
    /\ {PageA, PageB} \subseteq PageUrls(pages)

\* C6, as stated: with limit N the page list never holds more than N pages,
\* for every integer N.
C6_LengthAtMostLimit_AnyInteger ==
    (pc \in {"crawl", "stored"} /\ req.limit # NoneInt) => Len(pages) <= req.limit[1]

\* C6, amended: with limit N the page list never holds more than max(1, N)
\* pages; a limit below 1 counts as 1.
C6_LengthAtMostClampedLimit ==
    (pc \in {"crawl", "stored"} /\ req.limit # NoneInt)
        => Len(pages) <= Max(1, req.limit[1])

\* C6 witness: a crawl with limit 1 has returned one page while further
\* pages were waiting in the queue.
C6_Witness ==
    /\ pc = "stored"
    /\ req.limit = <<1>>
    /\ Len(pages) = 1
    /\ queue # <<>>

\* The same-host http(s) link targets of the pages in `from`, read from the
\* HTML that was served for them.
LinkTargets(from) ==
    UNION {{t \in {normalize_internal_url(urljoin(f[1], f[3].hrefs[i]))
                      : i \in 1..Len(f[3].hrefs)} :
              /\ t # NoUrl
              /\ t.scheme \in {"http", "https"}
              /\ hostname(t) = hostname(CrawlStart)}
           : f \in {g \in fetched : g[1] \in from}}

\* <<url, distance>> for every URL within link distance maxd of the frontier.
RECURSIVE WithinDistance(_, _, _, _)
WithinDistance(frontier, visited, d, maxd) ==
    IF frontier = {} \/ (maxd # NoneInt /\ d > maxd[1])
    THEN {}
    ELSE {<<u, d>> : u \in frontier}
         \cup WithinDistance(LinkTargets(frontier) \ (visited \cup frontier),
                             visited \cup frontier, d + 1, maxd)

\* No fetch failed and neither budget cut the crawl short.
CrawlUnhindered ==
    /\ pc = "stored"
    /\ failed = {}
    /\ ~dropped
    /\ Len(pages) < max_pages

ScopedStoreStep == pc = "crawl" /\ pc' = "stored" /\ ~mark_missing

\* C9: a reconciliation with mark-missing disabled creates or updates only
\* the pages it is given: every other SitePage row keeps its status and all
\* its fields, no row outside the set appears or disappears, and no sitemap
\* row outside the set is deleted or changed.
C9_NoMarkMissingFrame ==
    [][ScopedStoreStep =>
          /\ RowsOutside(site_pages', PageUrls(pages)) = RowsOutside(site_pages, PageUrls(pages))
          /\ RowsOutside(site_map', PageUrls(pages)) = RowsOutside(site_map, PageUrls(pages))
          /\ RowUrls(site_pages') = RowUrls(site_pages) \cup PageUrls(pages)
          /\ RowUrls(site_map') = RowUrls(site_map) \cup PageUrls(pages)]_vars

\* C9 witness: a scoped crawl has been stored with mark_missing=False while
\* an active page and a sitemap row that it did not visit are still there.
C9_Witness ==
    /\ pc = "stored"
    /\ ~mark_missing
    /\ pages # <<>>
    /\ last_op.kind = "store" /\ last_op.at = now - 1
    /\ \E r \in site_pages : r.url \notin PageUrls(pages) /\ r.status = "active"
    /\ \E m \in site_map : m.url \notin PageUrls(pages)

TouchFieldOf(kind) ==
    CASE kind = "touch_info" -> "info_last_refreshed_at"
      [] kind = "touch_atlas" -> "atlas_last_refreshed_at"
      [] kind = "touch_embedding" -> "embeddings_last_refreshed_at"

\* The step is a single-URL touch; last_op' names its kind and URL.
TouchStep ==
    /\ now' = now + 1
    /\ last_op'.kind \in {"touch_info", "touch_atlas", "touch_embedding"}

\* Exactly one row of the table has the URL, and it satisfies P.
TheRow(table, url, P(_)) ==
    /\ Cardinality({r \in table : r.url = url}) = 1
    /\ \A r \in table : r.url = url => P(r)

\* The fields of a Page that the registry's operations assign.  updated_at is
\* the row's modification stamp: crud.py assigns it only in the mark-missing
\* sweep, and the column's own update rule belongs to the SitePage
\* declaration, so a touch is not compared on it.
PageFields(r) == [r EXCEPT !.updated_at = NoTime]

\* C10, as stated: a touch of (site, url) changes nothing of that page but
\* its relevant refresh timestamp and its status (gone to active), creates
\* the page as active if it is absent, and leaves every other row unchanged.
C10_TouchOnlyRefreshTimestamp ==
    [][TouchStep =>
          LET u == last_op'.url
              f == TouchFieldOf(last_op'.kind)
              Touched(r2) ==
                  /\ r2.status = "active"
                  /\ r2[f] = <<now>>
                  /\ \A r \in site_pages :
                       r.url = u => PageFields(r2)
                                      = PageFields([r EXCEPT ![f] = <<now>>,
                                                             !.status = "active"])
          IN  /\ RowsOutside(site_pages', {u}) = RowsOutside(site_pages, {u})
              /\ TheRow(site_pages', u, Touched)]_vars

\* C10, amended: a touch of (site, url) changes nothing of that page but its
\* relevant refresh timestamp, its lastSeenAt and its status (gone to
\* active), creates the page as active if it is absent, and leaves every
\* other row unchanged.
C10_TouchOnlyRefreshAndLastSeen ==
    [][TouchStep =>
          LET u == last_op'.url
              f == TouchFieldOf(last_op'.kind)
              Touched(r2) ==
                  /\ r2.status = "active"
                  /\ r2[f] = <<now>>
                  /\ r2.last_seen_at = <<now>>
                  /\ \A r \in site_pages :
                       r.url = u => PageFields(r2)
                                      = PageFields([r EXCEPT ![f] = <<now>>,
                                                             !.last_seen_at = <<now>>,
                                                             !.status = "active"])
                  /\ u \notin RowUrls(site_pages) => r2.first_seen_at = <<now>>
          IN  /\ RowsOutside(site_pages', {u}) = RowsOutside(site_pages, {u})
              /\ TheRow(site_pages', u, Touched)]_vars

\* C10 witness: an atlas touch has just brought back a page that a crawl had
\* put to gone (no crawl and no other touch has seen it since), and the site
\* has other pages.
C10_Witness ==
    /\ pc = "idle"
    /\ last_op.kind = "touch_atlas" /\ last_op.at = now - 1
    /\ \E r \in site_pages :
         /\ r.url = last_op.url
         /\ r.status = "active"
         /\ r.atlas_last_refreshed_at = <<last_op.at>>
         /\ r.info_last_refreshed_at = NoTime
         /\ r.embeddings_last_refreshed_at = NoTime
         /\ r.updated_at # NoTime /\ r.last_crawled_at # NoTime
         /\ r.last_crawled_at[1] < r.updated_at[1]
    /\ RowsOutside(site_pages, {last_op.url}) # {}


(***************************************************************************)
(* Concurrent writers of one site's table site_pages (db/crud.py,          *)
(* db/session.py).  Each writer runs one operation in its own session:     *)
(* session_scope() opens it, the operation SELECTs its rows and assigns    *)
(* attributes to the objects it loaded, and leaving the scope flushes the  *)
(* unit of work and commits.  The flush INSERTs the objects the operation  *)
(* added and UPDATEs, row by row, the columns whose value the operation    *)
(* changed.  The engine is created without an isolation level, so every    *)
(* statement reads the rows committed before it.                           *)
(***************************************************************************)
Writers == {"w1", "w2"}

NoSession == [pc |-> "idle", op |-> NoOp, rows |-> {}, locked |-> {}]

\* The pages a concurrent full crawl hands to bulk_upsert_site_pages.
CrawlResults == {<<RootUrl, PageA>>, <<RootUrl, PageB>>}

\* The operation of a session applied to the rows it read.
apply_op(op, rows) ==
    IF op.kind = "store"
    THEN bulk_upsert_site_pages(rows, page_payload(PastCrawl(op.pages), op.at),
                                op.mark_missing, op.at)
    ELSE touch_site_page(rows, op.url, op.field, op.at)

\* select(SitePage).where(SitePage.site_id == site_id): no lock is taken.
select_site_pages(table) == table

\* select(SitePage).where(site_id, url).with_for_update(): the row, if there
\* is one, is read and stays locked until the session ends.
select_for_update(table, url) == {r \in table : r.url = url}

\* Another session holds the lock of a row with this URL.
LockedByOther(w, url) ==
    \E v \in Writers \ {w} : url \in writers[v].locked

\* with session_scope() as session: ... of bulk_upsert_site_pages, up to the
\* SELECT of the existing rows.
BeginBulkUpsert(w) ==
    /\ writers[w].pc = "idle"
    /\ \E ps \in CrawlResults, mm \in BOOLEAN :
         writers' = [writers EXCEPT ![w] =
            [pc |-> "open",
             op |-> [kind |-> "store", pages |-> ps, mark_missing |-> mm,
                     url |-> NoUrl, field |-> "", at |-> now],
             rows |-> select_site_pages(site_pages),
             locked |-> {}]]
    /\ now' = now + 1
    /\ UNCHANGED <<pc, site_docs, site_pages, site_map, req, crawl_vars, last_op,
                   registry0, uq_site_page, conc_aside>>

\* with session_scope() as session: ... of touch_site_page_*, up to the
\* SELECT ... FOR UPDATE, which waits while another session holds the row.
BeginTouch(w) ==
    /\ writers[w].pc = "idle"
    /\ \E url \in {PageA, PageB},
          field \in {"info_last_refreshed_at", "atlas_last_refreshed_at"} :
         /\ ~LockedByOther(w, url)
         /\ writers' = [writers EXCEPT ![w] =
              [pc |-> "open",
               op |-> [kind |-> "touch", pages |-> <<>>, mark_missing |-> FALSE,
                       url |-> url, field |-> field, at |-> now],
               rows |-> select_for_update(site_pages, url),
               locked |-> {r.url : r \in select_for_update(site_pages, url)}]]
    /\ now' = now + 1
    /\ UNCHANGED <<pc, site_docs, site_pages, site_map, req, crawl_vars, last_op,
                   registry0, uq_site_page, conc_aside>>

\* The flush of a session: `result` is what the operation made of the rows
\* it read.  An object the operation added is INSERTed; a row it loaded is
\* UPDATEd in the columns whose value it changed, whatever the row holds by
\* then.
RowOf(rows, url) == CHOOSE r \in rows : r.url = url
ChangedColumns(old, new) == {f \in DOMAIN old : old[f] # new[f]}
update_row(cur, old, new) ==
    [f \in DOMAIN cur |-> IF f \in ChangedColumns(old, new) THEN new[f] ELSE cur[f]]
Inserts(rows, result) == {r \in result : r.url \notin {x.url : x \in rows}}
UpdatedUrls(rows, result) ==
    {r.url : r \in {x \in rows : ChangedColumns(x, RowOf(result, x.url)) # {}}}
flush(table, rows, result) ==
    {IF cur.url \in {x.url : x \in rows}
     THEN update_row(cur, RowOf(rows, cur.url), RowOf(result, cur.url))
     ELSE cur : cur \in table}
    \cup Inserts(rows, result)

\* An INSERT of a (site_id, url) that a row committed meanwhile already has:
\* with the unique constraint the statement raises IntegrityError.
InsertConflicts(table, rows, result) ==
    \E r \in Inserts(rows, result) : r.url \in {x.url : x \in table}

\* session.commit() at the end of session_scope: the flush and the commit.
\* An UPDATE waits while another session holds the row.
Commit(w) ==
    LET rows == writers[w].rows
        result == apply_op(writers[w].op, rows)
    IN  /\ writers[w].pc = "open"
        /\ \A url \in UpdatedUrls(rows, result) : ~LockedByOther(w, url)
        /\ ~(uq_site_page /\ InsertConflicts(site_pages, rows, result))
        /\ site_pages' = flush(site_pages, rows, result)
        /\ writers' = [writers EXCEPT ![w].pc = "committed", ![w].locked = {}]
        /\ UNCHANGED <<pc, now, site_docs, site_map, req, crawl_vars, last_op,
                       registry0, uq_site_page, conc_aside>>

\* except Exception: session.rollback(); raise -- the flush failed on the
\* unique constraint, nothing of the session is written and the operation
\* ends with the exception.
Rollback(w) ==
    LET rows == writers[w].rows
        result == apply_op(writers[w].op, rows)
    IN  /\ writers[w].pc = "open"
        /\ \A url \in UpdatedUrls(rows, result) : ~LockedByOther(w, url)
        /\ uq_site_page /\ InsertConflicts(site_pages, rows, result)
        /\ writers' = [writers EXCEPT ![w].pc = "error", ![w].locked = {}]
        /\ UNCHANGED <<pc, now, site_docs, site_pages, site_map, req, crawl_vars,
                       last_op, registry0, uq_site_page, conc_aside>>

\* The registry the writers start from: empty, or as two full crawls left it
\* (/ and /a active, /b gone), or with every page active.
CrawledOncePages ==
    bulk_upsert_site_pages({}, page_payload(PastCrawl(<<RootUrl, PageA, PageB>>), -2),
                           TRUE, -2)
ConcInventories == {{}, CrawledTwicePages, CrawledOncePages}

InitConc ==
    /\ InitWith(FewDocs, {[site_pages |-> t, site_map |-> {}] : t \in ConcInventories})
    /\ writers = [w \in Writers |-> NoSession]
    /\ registry0 = site_pages
    /\ uq_site_page \in BOOLEAN
    /\ AtlasIdle
    /\ IndexIdle
    /\ CanonIdle
    /\ RefreshIdle

BulkUpsertBegins == \E w \in Writers : BeginBulkUpsert(w)
TouchBegins == \E w \in Writers : BeginTouch(w)
Commits == \E w \in Writers : Commit(w)
Rollbacks == \E w \in Writers : Rollback(w)

NextConc ==
    \/ BulkUpsertBegins
    \/ TouchBegins
    \/ Commits
    \/ Rollbacks

SpecConc == InitConc /\ [][NextConc]_vars

\* status of every page, by URL
StatusOf(table) == {<<r.url, r.status>> : r \in table}

\* The registry after the two writers' operations ran one after the other,
\* first w's and then v's, each reading what the one before it committed.
Serial(w, v) == apply_op(writers[v].op, apply_op(writers[w].op, registry0))

BothCommitted == \A w \in Writers : writers[w].pc = "committed"
OneRowPerUrl == \A r1, r2 \in site_pages : r1.url = r2.url => r1 = r2

\* C11: when two concurrent writers of one site's registry (full
\* reconciliations, single-URL touches) have both committed, the status of
\* every page is the status some serial execution of the two operations
\* produces.
C11_WritersSerialize ==
    (BothCommitted /\ OneRowPerUrl) =>
        \E w, v \in Writers :
            w # v /\ StatusOf(site_pages) = StatusOf(Serial(w, v))

\* C12: a site never holds two Page rows with one URL, and no writer ends
\* with an error, also when two writers both found the URL absent and both
\* create it.
C12_OneRowPerUrlNoError ==
    /\ OneRowPerUrl
    /\ \A w \in DOMAIN writers : writers[w].pc # "error"


(***************************************************************************)
(* Atlas builder (helper/common.py, _build_dom_atlas).  A parsed document  *)
(* is the tree of its tags below the BeautifulSoup object; a tag is named  *)
(* by its object identity id(node), a number that says nothing about its   *)
(* place in the document.                                                  *)
(***************************************************************************)
MaxNodes == 4     \* tags of a generated document

ATLAS_ELEMENT_LIMIT == 200

\* The BeautifulSoup object itself: the parent of the top-level tags, named
\* "[document]", with no parent.
Document == 0

\* node.parent: <<>> is None.
parent_of(d, node) == IF node = Document THEN <<>> ELSE <<d.parent[node]>>

\* The document is a tree: every tag hangs below the BeautifulSoup object.
RECURSIVE HangsBelowDocument(_, _, _)
HangsBelowDocument(parent, node, steps) ==
    IF node = Document THEN TRUE
    ELSE IF steps = 0 THEN FALSE
    ELSE HangsBelowDocument(parent, parent[node], steps - 1)

\* The child tags of a node in document order; siblings stand in ascending
\* or in descending order of their identities.
RECURSIVE in_order(_, _)
in_order(nodes, ascending) ==
    IF nodes = {} THEN <<>>
    ELSE LET first == CHOOSE n \in nodes :
                        \A m \in nodes : IF ascending THEN n <= m ELSE n >= m
         IN  <<first>> \o in_order(nodes \ {first}, ascending)
children(d, node) ==
    in_order({k \in DOMAIN d.parent : d.parent[k] = node}, d.ascending)

\* A tag and every tag below it, in document order.
RECURSIVE descendants(_, _)
descendants(d, todo) ==
    IF todo = <<>> THEN <<>>
    ELSE <<Head(todo)>> \o descendants(d, children(d, Head(todo)))
                        \o descendants(d, Tail(todo))

\* soup.find_all(True, limit=limit)
find_all(d, limit) ==
    LET all == descendants(d, children(d, Document))
    IN  SubSeq(all, 1, IF Len(all) < limit THEN Len(all) ELSE limit)

\* node_index.get(id(parent)): <<>> is None
node_index_get(node_index, node) ==
    IF node \in DOMAIN node_index THEN <<node_index[node]>> ELSE <<>>

\* while parent is not None and getattr(parent, "name", None): ...
RECURSIVE parent_idx_walk(_, _, _)
parent_idx_walk(d, parent, node_index) ==
    IF parent = <<>> THEN <<>>
    ELSE LET parent_idx == node_index_get(node_index, parent[1])
         IN  IF parent_idx # <<>> THEN parent_idx
             ELSE parent_idx_walk(d, parent_of(d, parent[1]), node_index)

\* node_index[id(node)] = idx
NodeIndexEntryNext(idx) == idx + 1
NodeIndexEntry(idx) == idx

\* for idx, node in enumerate(soup.find_all(True, limit=200)): ...
\* When the loop reaches nodes[i], node_index holds the tags before it, each
\* with the entry its iteration made.  An element keeps idx and parentIdx,
\* and `node`, the tag it describes; the other keys (tag, id, classList,
\* role, dataAttrs, textSample, cssPath) are read from the tag alone.
node_index_before(nodes, i) ==
    [n \in {nodes[j] : j \in 1..(i - 1)} |->
        NodeIndexEntry((CHOOSE j \in 1..(i - 1) : nodes[j] = n) - 1)]
dom_atlas_loop(d, nodes) ==
    [i \in 1..Len(nodes) |->
        [idx |-> i - 1,
         node |-> nodes[i],
         parentIdx |-> parent_idx_walk(d, parent_of(d, nodes[i]),
                                       node_index_before(nodes, i))]]

build_dom_atlas(d) ==
    dom_atlas_loop(d, find_all(d, ATLAS_ELEMENT_LIMIT))

\* Documents: every tree of MaxNodes tags, in both sibling orders, and a
\* document of one tag more than the atlas holds, where the tags k, k+1 and
\* k+2 are the children of the tag k \div 3.
SmallDoms ==
    {[parent |-> p, ascending |-> a] :
        p \in {q \in [1..MaxNodes -> 0..MaxNodes] :
                 \A n \in 1..MaxNodes : HangsBelowDocument(q, n, MaxNodes)},
        a \in BOOLEAN}
LargeDom ==
    [parent |-> [k \in 1..(ATLAS_ELEMENT_LIMIT + 1) |-> k \div 3],
     ascending |-> TRUE]
Doms == SmallDoms \cup {LargeDom}

InitAtlas ==
    /\ InitWith(FewDocs, {[site_pages |-> {}, site_map |-> {}]})
    /\ ConcIdle
    /\ IndexIdle
    /\ CanonIdle
    /\ RefreshIdle
    /\ dom \in Doms
    /\ atlas = <<>>

\* _build_dom_atlas(site_id, url, soup, html)
BuildDomAtlas ==
    /\ atlas = <<>>
    /\ atlas' = <<build_dom_atlas(dom)>>
    /\ UNCHANGED <<dom, atlas_aside>>

NextAtlas == BuildDomAtlas

SpecAtlas == InitAtlas /\ [][NextAtlas]_vars

\* The tags above a tag, up to the top-level tag.
RECURSIVE AncestorsOf(_, _)
AncestorsOf(d, node) ==
    IF node = Document \/ d.parent[node] = Document THEN {}
    ELSE {d.parent[node]} \cup AncestorsOf(d, d.parent[node])

AtlasElements == Range(atlas[1])
IndexedNodes == {e.node : e \in AtlasElements}
IdxOfNode(node) == (CHOOSE e \in AtlasElements : e.node = node).idx

\* The ancestors of a tag that were assigned an index, and the nearest one:
\* the one every other of them is above.
IndexedAncestors(node) == AncestorsOf(dom, node) \cap IndexedNodes
NearestIndexedAncestor(node) ==
    CHOOSE a \in IndexedAncestors(node) :
        \A b \in IndexedAncestors(node) \ {a} : b \in AncestorsOf(dom, a)

\* C13: in an atlas, an element with an indexed ancestor has as parentIdx the
\* idx of the nearest one, which is below its own idx; an element without an
\* indexed ancestor has a null parentIdx.
C13_ParentIdxIsNearestIndexedAncestor ==
    atlas # <<>> =>
        \A e \in AtlasElements :
            IF IndexedAncestors(e.node) = {}
            THEN e.parentIdx = <<>>
            ELSE /\ e.parentIdx = <<IdxOfNode(NearestIndexedAncestor(e.node))>>
                 /\ e.parentIdx[1] < e.idx

\* C13 witness: an atlas with a top-level element (null parentIdx), with an
\* element whose parent is not the element just before it, and with tags
\* whose identities run against the document order.
C13_Witness ==
    /\ atlas # <<>>
    /\ \E e \in AtlasElements : e.parentIdx = <<>>
    /\ \E e \in AtlasElements : e.parentIdx # <<>> /\ e.parentIdx[1] < e.idx - 1
    /\ \E e1, e2 \in AtlasElements : e1.idx < e2.idx /\ e1.node > e2.node


(***************************************************************************)
(* Embedding index (routes/site.py, routes/embedding.py, helper/common.py).*)
(* A vector is a list of integers over a positive denominator: <<3, 4>>    *)
(* over 5 is [0.6, 0.8].  The vectors of the model have whole norms, so    *)
(* the arithmetic is exact.                                                *)
(***************************************************************************)
MaxTopK == 3      \* largest top_k tried

Vec(num, den) == [num |-> num, den |-> den]

RECURSIVE SumOfSquares(_)
SumOfSquares(num) ==
    IF num = <<>> THEN 0 ELSE Head(num) * Head(num) + SumOfSquares(Tail(num))

\* np.linalg.norm(arr), times the denominator
norm_num(num) == CHOOSE n \in 0..SumOfSquares(num) : n * n = SumOfSquares(num)

\* The largest finite number of the float format the vectors are kept in
\* (float32 in the code): a larger number is inf.
FloatMax == 1000

\* _vector_to_numpy: np.asarray(seq, dtype=np.float32), then every component
\* that is not finite is 0.0.
vector_to_numpy(vector) ==
    Vec([i \in 1..Len(vector.num) |->
            IF vector.num[i] > FloatMax * vector.den \/ -vector.num[i] > FloatMax * vector.den
            THEN 0 ELSE vector.num[i]],
        vector.den)

\* math.isfinite(norm): np.linalg.norm takes the root of the sum of the
\* squares, which is computed in the format of the vector.
norm_isfinite(arr) == SumOfSquares(arr.num) <= FloatMax * arr.den * arr.den

\* _normalize_numpy: an empty vector, a vector whose norm is not finite and
\* a vector of norm 0 are returned as they are, any other vector is divided
\* by its norm.
normalize_numpy(vector) ==
    LET arr == vector_to_numpy(vector)
    IN  IF Len(arr.num) = 0 THEN arr
        ELSE IF ~norm_isfinite(arr) THEN arr
        ELSE IF norm_num(arr.num) = 0 THEN arr
        ELSE Vec(arr.num, norm_num(arr.num))

\* _normalize_to_list
normalize_to_list(vector) == normalize_numpy(vector)

\* What one POST {AGENT_URL}/agent/embedding can come to.
RawVectors == {<<>>, <<0, 0>>, <<3, 4>>, <<4, 3>>, <<-3, 4>>, <<0, -5>>, <<1, 2, 2>>,
               <<30, 40>>, <<2000>>}
AgentFailures == {"http_error", "not_json", "no_embedding", "not_numeric", "not_object"}
AgentOutcomes ==
    {[kind |-> "ok", vector |-> Vec(v, 1)] : v \in RawVectors}
    \cup {[kind |-> k, vector |-> Vec(<<>>, 1)] : k \in AgentFailures}

\* _call_agent_embedding of routes/site.py: the exception it raises, if any, and
\* the vector it returns.  The request and response.json() run inside the
\* try block; data.get("embedding") runs after it, and fails when the body
\* is JSON but not an object.
call_agent_embedding(outcome) ==
    CASE outcome.kind = "ok" -> [raised |-> "", vector |-> outcome.vector]
      [] outcome.kind \in {"http_error", "not_json", "no_embedding", "not_numeric"}
            -> [raised |-> "RuntimeError", vector |-> outcome.vector]
      [] outcome.kind = "not_object"
            -> [raised |-> "AttributeError", vector |-> outcome.vector]

\* _call_agent_embedding of routes/embedding.py: the conversion to float is
\* outside any try block.
call_agent_embedding_search(outcome) ==
    CASE outcome.kind = "ok" -> [raised |-> "", vector |-> outcome.vector]
      [] outcome.kind \in {"http_error", "not_json", "no_embedding"}
            -> [raised |-> "RuntimeError", vector |-> outcome.vector]
      [] outcome.kind = "not_numeric"
            -> [raised |-> "ValueError", vector |-> outcome.vector]
      [] outcome.kind = "not_object"
            -> [raised |-> "AttributeError", vector |-> outcome.vector]

\* build_page_embedding_text for a page without meta and without site info:
\* the text is the URL.
build_page_embedding_text(page) == [text |-> <<page.url>>, meta |-> <<>>]

\* upsert_site_embedding
upsert_site_embedding(table, url, embedding, text, meta) ==
    {r \in table : r.url # url}
    \cup {[url |-> url, embedding |-> embedding, text |-> text, meta |-> meta]}

\* store_site_embedding: the normalized vector is stored and the page touched.
store_site_embedding(db, url, embedding, text, meta, t) ==
    [embeddings |-> upsert_site_embedding(db.embeddings, url,
                                          normalize_to_list(embedding), text, meta),
     site_pages |-> touch_site_page(db.site_pages, url,
                                    "embeddings_last_refreshed_at", t)]

\* except RuntimeError as exc: of _embed_pages
Caught(raised) == raised = "RuntimeError"

\* for page in pages_list: ... of _embed_pages.  outcomes[i] is what the
\* collaborator does when it is called for the i-th page; `calls` lists the
\* texts it was called with.
RECURSIVE embed_pages_loop(_, _, _, _, _)
embed_pages_loop(pages_list, outcomes, i, db, acc) ==
    IF i > Len(pages_list) THEN [db |-> db, acc |-> acc]
    ELSE LET page == pages_list[i]
             built == build_page_embedding_text(page)
             got == call_agent_embedding(outcomes[i])
             called == [acc EXCEPT !.calls = Append(@, built.text)]
         IN  IF got.raised = ""
             THEN embed_pages_loop(pages_list, outcomes, i + 1,
                    store_site_embedding(db, page.url, got.vector, built.text,
                                         built.meta, acc.at),
                    [called EXCEPT !.embedded = @ + 1])
             ELSE IF Caught(got.raised)
             THEN embed_pages_loop(pages_list, outcomes, i + 1, db,
                    [called EXCEPT !.failed = Append(@, page.url)])
             ELSE [db |-> db, acc |-> [called EXCEPT !.raised = got.raised]]

\* _embed_pages: the response, or the exception that ended it
embed_pages(pages_list, outcomes, db, t) ==
    LET attempted == Len(pages_list)
        run == embed_pages_loop(pages_list, outcomes, 1, db,
                   [embedded |-> 0, failed |-> <<>>, calls |-> <<>>,
                    raised |-> "", at |-> t])
    IN  [db |-> run.db,
         calls |-> run.acc.calls,
         raised |-> run.acc.raised,
         response |-> IF run.acc.raised # "" THEN <<>>
                      ELSE <<[totalUrls |-> attempted,
                              embeddedUrls |-> run.acc.embedded,
                              failedUrls |-> run.acc.failed]>>]

\* get_site_embeddings: the stored rows, by URL
get_site_embeddings_active(table) ==
    {r \in table : \E p \in site_pages : p.url = r.url /\ p.status = "active"}
get_site_embeddings(table) == table

\* matrix @ query_vector, one row: the dot product as a fraction
RECURSIVE DotNum(_, _)
DotNum(a, b) ==
    IF a = <<>> THEN 0 ELSE Head(a) * Head(b) + DotNum(Tail(a), Tail(b))
dot(a, b) == [num |-> DotNum(a.num, b.num), den |-> a.den * b.den]
ScoreLess(s1, s2) == s1.num * s2.den < s2.num * s1.den

\* normalized.shape[0] != expected_dim
DimMatchesAny(normalized, expected_dim) == TRUE
DimMatches(normalized, expected_dim) == Len(normalized.num) = expected_dim

\* every ordering of a set of URLs
RECURSIVE Orderings(_)
Orderings(S) ==
    IF S = {} THEN {<<>>}
    ELSE UNION {{<<x>> \o rest : rest \in Orderings(S \ {x})} : x \in S}

\* [::-1]
NotReversed(seq) == seq
Reversed(seq) == [i \in 1..Len(seq) |-> seq[Len(seq) + 1 - i]]

\* min(top_k, scores.shape[0])
LimitOf(top_k, n) == IF top_k < n THEN top_k ELSE n

\* search_site_embeddings(site_id, query_embedding, top_k=top_k): every
\* outcome the call can have, [raised, results].  np.argpartition and
\* np.argsort place equal scores in an order of their own choosing.
search_site_embeddings(table, query_embedding, top_k) ==
    LET query_vector == normalize_numpy(query_embedding)
        records == get_site_embeddings(table)
        expected_dim == Len(query_vector.num)
        kept == {r \in records :
                    LET normalized == normalize_numpy(r.embedding)
                    IN  ~(Len(normalized.num) = 0
                          \/ ~DimMatches(normalized, expected_dim))}
        score(r) == dot(normalize_numpy(r.embedding), query_vector)
        limit == LimitOf(top_k, Cardinality(kept))
        \* np.argpartition(-scores, limit - 1)[:limit]
        top_indices == {T \in SUBSET kept :
                           /\ Cardinality(T) = limit
                           /\ \A r \in T, o \in kept \ T : ~ScoreLess(score(r), score(o))}
        \* np.argsort(scores[top_indices])
        argsort(T) == {o \in Orderings(T) :
                          \A i \in 1..(Len(o) - 1) : ~ScoreLess(score(o[i + 1]), score(o[i]))}
        result(o) == [i \in 1..Len(o) |->
                         [url |-> o[i].url, score |-> score(o[i]), meta |-> o[i].meta]]
        empty == {[raised |-> "", results |-> <<>>]}
    IN  IF top_k <= 0 THEN empty
        ELSE IF expected_dim = 0 THEN empty
        ELSE IF records = {} THEN empty
        ELSE IF kept = {} THEN empty
        \* np.vstack(vectors) takes vectors of one length
        ELSE IF \E r \in kept : Len(r.embedding.num) # expected_dim
        THEN {[raised |-> "ValueError", results |-> <<>>]}
        ELSE IF limit <= 0 THEN empty
        ELSE {[raised |-> "", results |-> result(Reversed(o))] :
                 o \in UNION {argsort(T) : T \in top_indices}}

\* str.strip(), for texts written as lists of characters
RECURSIVE lstrip(_)
lstrip(text) ==
    IF text # <<>> /\ Head(text) = " " THEN lstrip(Tail(text)) ELSE text
strip(text) == Reversed(lstrip(Reversed(lstrip(text))))

\* The texts a search hands to _call_agent_embedding: the query.
texts_to_embed_and_rows(query, table) == <<query>> \o [i \in 1..Cardinality(table) |-> query]
texts_to_embed(query, table) == <<query>>

\* One finished invocation, as the history keeps it.  top_k is the number of
\* results the caller asked for (<<>> if it named none).
Invoked(kind, top_k, query, calls, raised, status, results) ==
    <<[kind |-> kind, top_k |-> top_k, query |-> query, calls |-> calls,
       raised |-> raised, status |-> status, results |-> results,
       pages |-> <<>>, outcomes |-> <<>>, response |-> <<>>]>>

\* GET /site/map/search: the invocation as the history keeps it, for each
\* way the search can go.  `outcome` is what the collaborator does if called.
search_site_map(table, query, outcome) ==
    LET got == call_agent_embedding(outcome)
        calls == texts_to_embed(query, table)
    IN  IF strip(query) = <<>>
        THEN {Invoked("search_site_map", <<>>, query, <<>>, "HTTPException", 400, <<>>)}
        ELSE IF get_site_embeddings(table) = {}
        THEN {Invoked("search_site_map", <<>>, query, <<>>, "", 200, <<>>)}
        ELSE IF got.raised = "RuntimeError"
        THEN {Invoked("search_site_map", <<>>, query, calls, "HTTPException", 502, <<>>)}
        ELSE IF got.raised # ""
        THEN {Invoked("search_site_map", <<>>, query, calls, got.raised, 500, <<>>)}
        ELSE {Invoked("search_site_map", <<>>, query, calls, m.raised,
                      IF m.raised = "" THEN 200 ELSE 500, m.results) :
                 m \in search_site_embeddings(table, got.vector, 3)}

\* POST /embedding/search.  payload.limit is <<>> (None) or <<n>>.  The call
\* search_site_embeddings(..., top_k=search_limit, records=store) names a
\* keyword that search_site_embeddings does not take, so the call raises
\* TypeError and the handler ends there.
embedding_search(table, text, payload_limit, settings, outcome) ==
    LET query == strip(text)
        got == call_agent_embedding_search(outcome)
        calls == texts_to_embed(query, table)
        top_limit == Max(1, IF settings.topSearchResults < 20
                            THEN settings.topSearchResults ELSE 20)
        requested_limit == Max(1, IF payload_limit # <<>> THEN payload_limit[1]
                                  ELSE top_limit)
        limit == IF requested_limit < top_limit THEN requested_limit ELSE top_limit
    IN  IF query = <<>>
        THEN Invoked("embedding_search", payload_limit, query, <<>>, "HTTPException", 400, <<>>)
        ELSE IF Len(query) < 3
        THEN Invoked("embedding_search", payload_limit, query, <<>>, "", 200, <<>>)
        ELSE IF ~settings.enableSearch
        THEN Invoked("embedding_search", payload_limit, query, <<>>, "", 200, <<>>)
        ELSE IF get_site_embeddings(table) = {}
        THEN Invoked("embedding_search", payload_limit, query, <<>>, "", 200, <<>>)
        ELSE IF got.raised = "RuntimeError"
        THEN Invoked("embedding_search", payload_limit, query, calls, "HTTPException", 502, <<>>)
        ELSE IF got.raised # ""
        THEN Invoked("embedding_search", payload_limit, query, calls, got.raised, 500, <<>>)
        ELSE Invoked("embedding_search", payload_limit, query, calls, "TypeError", 500, <<>>)

\* Inputs.
Queries == {<<>>, <<" ">>, <<"a", "b">>, <<"c", "a", "r", "t">>, <<" ", "c", "a", "r", "t", " ">>}
Batches == {<<[url |-> PageA, meta |-> NoMeta], [url |-> PageB, meta |-> NoMeta]>>,
            <<[url |-> PageB, meta |-> NoMeta]>>}
Settings == {[enableSearch |-> TRUE, topSearchResults |-> 5],
             [enableSearch |-> TRUE, topSearchResults |-> 1],
             [enableSearch |-> FALSE, topSearchResults |-> 5]}
SearchOutcomes ==
    {[kind |-> "ok", vector |-> Vec(v, 1)] : v \in {<<>>, <<3, 4>>, <<1, 2, 2>>}}
    \cup {[kind |-> k, vector |-> Vec(<<>>, 1)] : k \in {"http_error", "not_numeric", "not_object"}}

\* _embed_pages(site_id, pages, ...) over a batch of pages
EmbedPages ==
    /\ invocation = <<>>
    /\ \E pages_list \in Batches :
         \E outcomes \in [1..Len(pages_list) -> AgentOutcomes] :
            LET run == embed_pages(pages_list, outcomes,
                                   [embeddings |-> embeddings, site_pages |-> site_pages],
                                   now)
            IN  /\ embeddings' = run.db.embeddings
                /\ site_pages' = run.db.site_pages
                /\ invocation' = <<[kind |-> "embed_pages", top_k |-> <<>>, query |-> <<>>,
                                    calls |-> run.calls, raised |-> run.raised,
                                    status |-> IF run.raised = "" THEN 200 ELSE 500,
                                    results |-> <<>>, pages |-> pages_list,
                                    outcomes |-> outcomes, response |-> run.response]>>
    /\ now' = now + 1
    /\ UNCHANGED index_aside

\* A behaviour of the index is one search, or one batch of embeddings and
\* one search after it.
SearchMayRun == IF invocation = <<>> THEN TRUE ELSE invocation[1].kind = "embed_pages"

\* search_site_embeddings called with a query vector and a top_k
SearchSiteEmbeddings ==
    /\ SearchMayRun
    /\ \E query_embedding \in RawVectors, top_k \in (-1)..MaxTopK :
         \E m \in search_site_embeddings(embeddings, Vec(query_embedding, 1), top_k) :
            invocation' = Invoked("search_site_embeddings", <<top_k>>,
                                  query_embedding, <<>>, m.raised,
                                  IF m.raised = "" THEN 200 ELSE 500, m.results)
    /\ UNCHANGED <<embeddings, site_pages, now, index_aside>>

SearchSiteMap ==
    /\ SearchMayRun
    /\ \E query \in Queries, outcome \in SearchOutcomes :
         invocation' \in search_site_map(embeddings, query, outcome)
    /\ UNCHANGED <<embeddings, site_pages, now, index_aside>>

EmbeddingSearch ==
    /\ SearchMayRun
    /\ \E text \in Queries, payload_limit \in OptInts(-1, MaxTopK),
          settings \in Settings, outcome \in SearchOutcomes :
         invocation' = embedding_search(embeddings, text, payload_limit, settings, outcome)
    /\ UNCHANGED <<embeddings, site_pages, now, index_aside>>

\* Stored embeddings the index starts from: none, or the three pages of the
\* site embedded at time -1 with the given vectors.
Stored(vroot, va, vb) ==
    store_site_embedding(
        store_site_embedding(
            store_site_embedding([embeddings |-> {}, site_pages |-> {}],
                                 RootUrl, Vec(vroot, 1), <<RootUrl>>, <<>>, -1),
            PageA, Vec(va, 1), <<PageA>>, <<>>, -1),
        PageB, Vec(vb, 1), <<PageB>>, <<>>, -1)
Stores == {[embeddings |-> {}, site_pages |-> {}],
           Stored(<<3, 4>>, <<4, 3>>, <<1, 2, 2>>),
           Stored(<<3, 4>>, <<-3, 4>>, <<4, 3>>),
           Stored(<<4, 3>>, <<4, 3>>, <<0, 0>>)}

InitIndex ==
    /\ InitWith(FewDocs, {[site_pages |-> {}, site_map |-> {}]})
    /\ ConcIdle
    /\ AtlasIdle
    /\ CanonIdle
    /\ RefreshIdle
    /\ invocation = <<>>
    /\ embeddings \in {st.embeddings : st \in Stores}

NextIndex ==
    \/ EmbedPages
    \/ SearchSiteEmbeddings
    \/ SearchSiteMap
    \/ EmbeddingSearch

SpecIndex == InitIndex /\ [][NextIndex]_vars

\* The invocation that ran last.
Last == invocation[1]
Ran(kinds) == IF invocation = <<>> THEN FALSE ELSE Last.kind \in kinds

EmbeddedUrls == {r.url : r \in embeddings}
Succeeded == {i \in 1..Len(Last.pages) : Last.outcomes[i].kind = "ok"}
RECURSIVE UrlsOf(_, _, _)
UrlsOf(pages_list, keep, i) ==
    IF i > Len(pages_list) THEN <<>>
    ELSE (IF i \in keep THEN <<pages_list[i].url>> ELSE <<>>)
         \o UrlsOf(pages_list, keep, i + 1)

\* C14: in an embedding batch a collaborator failure for one URL never aborts
\* the batch: the batch ends with a response whose embedded count is the
\* number of URLs that succeeded and whose failedUrls are the URLs that
\* failed, every URL was attempted, and every URL that succeeded has a stored
\* embedding.
C14_FailureNeverAbortsBatch ==
    Ran({"embed_pages"}) =>
        /\ Last.raised = ""
        /\ Last.response # <<>>
        /\ Last.response[1].embeddedUrls = Cardinality(Succeeded)
        /\ Last.response[1].failedUrls
             = UrlsOf(Last.pages, (1..Len(Last.pages)) \ Succeeded, 1)
        /\ Last.calls = [i \in 1..Len(Last.pages) |-> <<Last.pages[i].url>>]
        /\ \A i \in Succeeded : Last.pages[i].url \in EmbeddedUrls

\* C15: a search asked for topK <= 0 results (with a query that is not
\* empty) returns an empty result and does not call the embedding
\* collaborator.
C15_NoCallForTopKZero ==
    (Ran({"search_site_embeddings", "search_site_map", "embedding_search"})
       /\ Last.top_k # <<>> /\ Last.top_k[1] <= 0
       /\ Last.query # <<>>)
    => /\ Last.calls = <<>>
       /\ Last.raised = ""
       /\ Last.results = <<>>

\* C16: one search invocation calls the embedding collaborator at most once,
\* and then for the query text, however many vectors are stored.
C16_AtMostOneCallPerSearch ==
    Ran({"search_site_embeddings", "search_site_map", "embedding_search"})
    => /\ Len(Last.calls) <= 1
       /\ Last.calls # <<>> => Last.calls = <<Last.query>>

\* C16 witness: a /site/map/search over three stored vectors has called the
\* collaborator once and returned two results.
C16_Witness ==
    /\ Ran({"search_site_map"})
    /\ Cardinality(embeddings) = 3
    /\ Len(Last.calls) = 1
    /\ Last.raised = ""
    /\ Len(Last.results) = 2

\* The stored vectors a query vector can be compared with: those of its
\* dimensionality.
Matching(query_embedding) ==
    {r \in embeddings : /\ Len(query_embedding) > 0
                        /\ Len(r.embedding.num) = Len(query_embedding)}
ResultUrls == {Last.results[i].url : i \in 1..Len(Last.results)}
Smaller(a, b) == IF a < b THEN a ELSE b

\* C17: a stored vector of another dimensionality than the query vector is
\* left out of the search: search_site_embeddings does not fail, returns no
\* URL of such a vector, and returns the vectors of the query's
\* dimensionality, up to top_k of them.
C17_DimensionMismatchExcluded ==
    Ran({"search_site_embeddings"}) =>
        /\ Last.raised = ""
        /\ ResultUrls \subseteq {r.url : r \in Matching(Last.query)}
        /\ Last.top_k[1] >= 1 =>
             Cardinality(ResultUrls)
               = Smaller(Last.top_k[1], Cardinality(Matching(Last.query)))

\* C17 witness: a search with top_k = 3 over two vectors of the query's
\* dimensionality and one of another returned the two.
C17_Witness ==
    /\ Ran({"search_site_embeddings"})
    /\ Last.top_k = <<3>>
    /\ Cardinality(embeddings) = 3
    /\ Cardinality(Matching(Last.query)) = 2
    /\ Cardinality(ResultUrls) = 2

\* The cosine similarity of a stored row and the query vector of the last
\* search.
Cosine(r) == dot(normalize_numpy(r.embedding), normalize_numpy(Vec(Last.query, 1)))

NonDegenerate(vector) == Len(vector.num) > 0 /\ \E i \in 1..Len(vector.num) : vector.num[i] # 0
UnitNorm(vector) == SumOfSquares(vector.num) = vector.den * vector.den
StoredFor(url) == CHOOSE r \in embeddings : r.url = url

\* C22: every vector store_site_embedding persisted in an embedding batch
\* from an input that is not empty and not all zero has L2 norm 1.
C22_StoredVectorsUnitNorm ==
    Ran({"embed_pages"}) =>
        \A i \in 1..Len(Last.calls) :
            (Last.outcomes[i].kind = "ok" /\ NonDegenerate(Last.outcomes[i].vector))
                => UnitNorm(StoredFor(Last.pages[i].url).embedding)

(***************************************************************************)
(* URL canonicalizer on URL texts: _normalize_internal_url and             *)
(* resolve_site_url as they read and write strings.  A text is the list of *)
(* its characters; a run of characters that holds no delimiter (a word     *)
(* such as "http" or "site.test", a percent escape) is one element.        *)
(***************************************************************************)
MaxParams == 2    \* most "&"-separated pieces of a query tried

\* None, and the empty string, where the code holds an Optional[str].
NoText == <<>>

Words == {"http", "HTTP", "site.test", "other.test", "a", "k", "j"}

\* str.lower()
lower(text) == [i \in 1..Len(text) |-> IF text[i] = "HTTP" THEN "http" ELSE text[i]]

\* scheme_chars of urllib.parse: letters, digits, "+", "-", "."
Digits == {"80"}
scheme_chars == Words \cup Digits \cup {"+"}
uses_relative == {<<>>, <<"http">>}
uses_netloc == {<<>>, <<"http">>}
uses_params == {<<>>, <<"http">>}

\* str.find(c, start) and str.rfind(c), counting from 1: 0 when c is absent.
find(text, c, start) ==
    LET at == {i \in start..Len(text) : text[i] = c}
    IN  IF at = {} THEN 0 ELSE CHOOSE i \in at : \A j \in at : i <= j
rfind(text, c) ==
    LET at == {i \in 1..Len(text) : text[i] = c}
    IN  IF at = {} THEN 0 ELSE CHOOSE i \in at : \A j \in at : i >= j

\* text[i:] and text[:i], counting from 1: the text from i on, the text before i.
From(text, i) == SubSeq(text, i, Len(text))
Before(text, i) == SubSeq(text, 1, i - 1)

\* str.split(sep) and sep.join(parts)
RECURSIVE split(_, _)
split(text, sep) ==
    LET i == find(text, sep, 1)
    IN  IF i = 0 THEN <<text>>
        ELSE <<Before(text, i)>> \o split(From(text, i + 1), sep)
RECURSIVE join(_, _)
join(parts, sep) ==
    IF parts = <<>> THEN <<>>
    ELSE IF Len(parts) = 1 THEN parts[1]
    ELSE parts[1] \o <<sep>> \o join(Tail(parts), sep)

\* str.lstrip(c) and str.rstrip(c)
RECURSIVE lstrip_char(_, _)
lstrip_char(text, c) ==
    IF text # <<>> /\ Head(text) = c THEN lstrip_char(Tail(text), c) ELSE text
RECURSIVE rstrip_char(_, _)
rstrip_char(text, c) ==
    IF text # <<>> /\ text[Len(text)] = c
    THEN rstrip_char(Before(text, Len(text)), c) ELSE text

\* Bind(value, Then): Then of the value, which is computed once.
Bind(value, Then(_)) == CHOOSE result \in {Then(v) : v \in {value}} : TRUE

\* str.partition(sep): the text before the first sep and the text after it.
partition(text, sep) ==
    LET i == find(text, sep, 1)
    IN  IF i > 0 THEN <<Before(text, i), From(text, i + 1)>> ELSE <<text, <<>>>>

\* urlsplit: the scheme of a URL, lower case, and what follows its ":".
split_scheme(url, scheme) ==
    LET i == find(url, ":", 1)
    IN  IF /\ i > 1
           /\ url[1] \in Words
           /\ \A j \in 1..(i - 1) : url[j] \in scheme_chars
        THEN <<lower(Before(url, i)), From(url, i + 1)>>
        ELSE <<scheme, url>>

\* _splitnetloc(url, 2): the netloc after "//" and what follows it.
splitnetloc(url) ==
    LET delims == {find(url, c, 3) : c \in {"/", "?", "#"}} \ {0}
        delim == IF delims = {} THEN Len(url) + 1
                 ELSE CHOOSE d \in delims : \A e \in delims : d <= e
    IN  IF Len(url) >= 2 /\ url[1] = "/" /\ url[2] = "/"
        THEN <<SubSeq(url, 3, delim - 1), From(url, delim)>>
        ELSE <<(<<>>), url>>

\* urlsplit(url, scheme): scheme, netloc, path, query and fragment of a text.
urlsplit(url, scheme) ==
    Bind(split_scheme(url, scheme), LAMBDA s :
    Bind(splitnetloc(s[2]), LAMBDA n :
    Bind(partition(n[2], "#"), LAMBDA f :
    Bind(partition(f[1], "?"), LAMBDA q :
        [scheme |-> s[1], netloc |-> n[1], path |-> q[1], query |-> q[2],
         fragment |-> f[2]]))))

\* _splitparams(url): <<path, params>>
splitparams(url) ==
    LET i == IF find(url, "/", 1) > 0 THEN find(url, ";", rfind(url, "/"))
             ELSE find(url, ";", 1)
    IN  IF i = 0 THEN <<url, <<>>>> ELSE <<Before(url, i), From(url, i + 1)>>

\* urlparse(url, scheme)
urlparse(url, scheme) ==
    Bind(urlsplit(url, scheme), LAMBDA r :
    Bind(IF r.scheme \in uses_params /\ find(r.path, ";", 1) > 0
         THEN splitparams(r.path) ELSE <<r.path, <<>>>>, LAMBDA pp :
        [scheme |-> r.scheme, netloc |-> r.netloc, path |-> pp[1], params |-> pp[2],
         query |-> r.query, fragment |-> r.fragment]))

\* urlunsplit((scheme, netloc, url, query, fragment))
urlunsplit(scheme, netloc, path, query, fragment) ==
    LET slashes == \/ netloc # <<>>
                   \/ /\ scheme # <<>>
                      /\ scheme \in uses_netloc
                      /\ ~(Len(path) >= 2 /\ path[1] = "/" /\ path[2] = "/")
        url1 == IF slashes
                THEN <<"/", "/">> \o netloc \o
                     (IF path # <<>> /\ Head(path) # "/" THEN <<"/">> ELSE <<>>) \o path
                ELSE path
        url2 == IF scheme # <<>> THEN scheme \o <<":">> \o url1 ELSE url1
        url3 == IF query # <<>> THEN url2 \o <<"?">> \o query ELSE url2
    IN  IF fragment # <<>> THEN url3 \o <<"#">> \o fragment ELSE url3

\* urlunparse(components), which is ParseResult.geturl()
geturl(r) ==
    urlunsplit(r.scheme, r.netloc,
               IF r.params # <<>> THEN r.path \o <<";">> \o r.params ELSE r.path,
               r.query, r.fragment)

\* The characters quote_plus() escapes, with their escapes.
percent == {<<":", "%3A">>, <<"/", "%2F">>, <<"?", "%3F">>, <<"#", "%23">>,
            <<"&", "%26">>, <<"=", "%3D">>, <<";", "%3B">>, <<"+", "%2B">>}

\* unquote_plus(text): "+" is a space, then every escape is its character.
unquote_plus(text) ==
    [i \in 1..Len(text) |->
        IF text[i] \in {"+", "%20"} THEN " "
        ELSE IF \E e \in percent : e[2] = text[i]
        THEN (CHOOSE e \in percent : e[2] = text[i])[1]
        ELSE text[i]]

\* quote_plus(text): a space is "+", every reserved character is escaped.
quote_plus_nothing(text) == text
quote_plus(text) ==
    [i \in 1..Len(text) |->
        IF text[i] = " " THEN "+"
        ELSE IF \E e \in percent : e[1] = text[i]
        THEN (CHOOSE e \in percent : e[1] = text[i])[2]
        ELSE text[i]]

\* parse_qsl(qs, keep_blank_values=True): <<name, value>> of every piece that
\* is not empty, unquoted.
RECURSIVE parse_pieces(_)
parse_pieces(name_values) ==
    IF name_values = <<>> THEN <<>>
    ELSE LET name_value == Head(name_values)
             eq == find(name_value, "=", 1)
             name == IF eq > 0 THEN Before(name_value, eq) ELSE name_value
             value == IF eq > 0 THEN From(name_value, eq + 1) ELSE <<>>
         IN  IF name_value = <<>> THEN parse_pieces(Tail(name_values))
             ELSE <<(<<unquote_plus(name), unquote_plus(value)>>)>>
                  \o parse_pieces(Tail(name_values))
parse_qsl_str(qs) == IF qs = <<>> THEN <<>> ELSE parse_pieces(split(qs, "&"))

\* urlencode(query, doseq=True) of a list of <<name, value>> strings.
urlencode_str(query_items) ==
    join([i \in 1..Len(query_items) |->
             quote_plus(query_items[i][1]) \o <<"=">> \o quote_plus(query_items[i][2])],
         "&")

\* _normalize_internal_url(url)
normalize_internal_url_raw_query(url) ==
    Bind(urlparse(url, <<>>), LAMBDA parsed :
        IF parsed.scheme = <<>> \/ parsed.netloc = <<>> THEN NoText
        ELSE geturl([parsed EXCEPT !.path = IF @ = <<>> THEN <<"/">> ELSE @,
                                   !.fragment = <<>>,
                                   !.params = <<>>]))
normalize_internal_url_str(url) ==
    Bind(urlparse(url, <<>>), LAMBDA parsed :
        IF parsed.scheme = <<>> \/ parsed.netloc = <<>> THEN NoText
        ELSE geturl([parsed EXCEPT !.path = IF @ = <<>> THEN <<"/">> ELSE @,
                                   !.fragment = <<>>,
                                   !.params = <<>>,
                                   !.query = urlencode_str(parse_qsl_str(@))]))

\* urljoin: the segments of the joined path.  The texts of the model hold no
\* "." or ".." segment, so the loop over the segments keeps every one of them.
join_segments(bpath, path) ==
    Bind(split(bpath, "/"), LAMBDA base_split :
    Bind((IF base_split[Len(base_split)] # <<>>
          THEN Before(base_split, Len(base_split)) ELSE base_split)
         \o split(path, "/"), LAMBDA joined :
        IF path # <<>> /\ Head(path) = "/"
        THEN split(path, "/")
        ELSE <<joined[1]>>
             \o SelectSeq(SubSeq(joined, 2, Len(joined) - 1), LAMBDA seg : seg # <<>>)
             \o <<joined[Len(joined)]>>))

\* urljoin(base, url)
urljoin_str(base, url) ==
    IF base = <<>> THEN url
    ELSE IF url = <<>> THEN base
    ELSE Bind(urlparse(base, <<>>), LAMBDA b :
         Bind(urlparse(url, b.scheme), LAMBDA u :
         Bind(IF u.scheme \in uses_netloc THEN b.netloc ELSE u.netloc, LAMBDA netloc :
             IF u.scheme # b.scheme \/ u.scheme \notin uses_relative THEN url
             ELSE IF u.scheme \in uses_netloc /\ u.netloc # <<>> THEN geturl(u)
             ELSE IF u.path = <<>> /\ u.params = <<>>
             THEN geturl([u EXCEPT !.netloc = netloc,
                                   !.path = b.path,
                                   !.params = b.params,
                                   !.query = IF @ = <<>> THEN b.query ELSE @])
             ELSE Bind(join(join_segments(b.path, u.path), "/"), LAMBDA resolved_path :
                      geturl([u EXCEPT !.netloc = netloc,
                                       !.path = IF resolved_path = <<>> THEN <<"/">>
                                                ELSE resolved_path])))))

\* urlparse(url).hostname: the netloc before the port, in lower case.
hostname_str(url) ==
    Bind(urlparse(url, <<>>).netloc, LAMBDA netloc :
        lower(partition(netloc, ":")[1]))

\* site.parent_url of the one registered site
ParentUrlStr == <<"http", ":", "/", "/", SiteNetloc, "/">>

\* resolve_site_url(site_id, url)
resolve_site_url_str(parent_url, url) ==
    Bind(parent_url, LAMBDA base :
    Bind(IF url # NoText
         THEN IF base # NoText /\ urlparse(url, <<>>).scheme = <<>>
              THEN urljoin_str(rstrip_char(base, "/") \o <<"/">>, lstrip_char(url, "/"))
              ELSE url
         ELSE base, LAMBDA candidate :
    Bind(normalize_internal_url_str(candidate), LAMBDA normalized :
        IF candidate = NoText \/ normalized = NoText THEN NoText
        ELSE Bind(<<hostname_str(base), hostname_str(normalized)>>, LAMBDA host :
                 IF base # NoText /\ host[1] # <<>> /\ host[2] # <<>> /\ host[2] # host[1]
                 THEN NoText
                 ELSE normalized))))

\* The URLs handed to the canonicalizer, as they are written: what stands
\* before the path, the path, the query with its "?", the fragment with its "#".
Prefixes == {<<>>,
             <<"http", ":", "/", "/", "site.test">>,
             <<"HTTP", ":", "/", "/", "site.test">>,
             <<"http", ":", "/", "/", "other.test">>,
             <<"http", ":">>}
Paths == {<<>>, <<"/", "a">>, <<"a", ";", "k">>, <<"/", "/", "a">>}
Fragments == {<<>>, <<"#", "?", "k">>}
NameValues == {<<"k">>, <<"k", "=">>, <<"j", "=", "%20">>, <<"j", "=", "%26", "k">>}
QueryStrings ==
    {<<>>} \cup {<<"?">> \o join(name_values, "&") :
                    name_values \in UNION {[1..n -> NameValues] : n \in 0..MaxParams}}
RawUrls == [prefix : Prefixes, path : Paths, query : QueryStrings, fragment : Fragments,
            parent_url : {ParentUrlStr}]

Text(written) == written.prefix \o written.path \o written.query \o written.fragment

Canonicalizers == {"_normalize_internal_url", "resolve_site_url"}
canon_of(fn, parent_url, url) ==
    IF fn = "resolve_site_url" THEN resolve_site_url_str(parent_url, url)
    ELSE normalize_internal_url_str(url)

\* One call of the canonicalizer, as the history keeps it: its result, the
\* result of canonicalizing that result again, and the result for the same
\* URL written with another query.
Canonicalized(fn, out) ==
    <<[fn |-> fn, out |-> out, again |-> <<>>, other |-> <<>>, other_out |-> <<>>]>>

NormalizeInternalUrl ==
    /\ raw # <<>>
    /\ canon = <<>>
    /\ canon' = Canonicalized("_normalize_internal_url",
                              normalize_internal_url_str(Text(raw)))
    /\ UNCHANGED <<raw, canon_aside>>

ResolveSiteUrl ==
    /\ raw # <<>>
    /\ canon = <<>>
    /\ canon' = Canonicalized("resolve_site_url", resolve_site_url_str(raw.parent_url, Text(raw)))
    /\ UNCHANGED <<raw, canon_aside>>

CanonicalizeAgain ==
    /\ canon # <<>>
    /\ canon[1].again = <<>> /\ canon[1].other = <<>>
    /\ canon[1].out # NoText
    /\ canon' = <<[canon[1] EXCEPT !.again = <<canon_of(canon[1].fn, raw.parent_url, canon[1].out)>>]>>
    /\ UNCHANGED <<raw, canon_aside>>

CanonicalizeOther ==
    /\ canon # <<>>
    /\ canon[1].again = <<>> /\ canon[1].other = <<>>
    /\ \E query \in QueryStrings :
         canon' = <<[canon[1] EXCEPT
                       !.other = <<query>>,
                       !.other_out = <<canon_of(canon[1].fn, raw.parent_url,
                                                Text([raw EXCEPT !.query = query]))>>]>>
    /\ UNCHANGED <<raw, canon_aside>>

InitCanon ==
    /\ InitWith(FewDocs, {[site_pages |-> {}, site_map |-> {}]})
    /\ ConcIdle
    /\ AtlasIdle
    /\ IndexIdle
    /\ RefreshIdle
    /\ raw \in RawUrls
    /\ canon = <<>>

NextCanon ==
    \/ NormalizeInternalUrl
    \/ ResolveSiteUrl
    \/ CanonicalizeAgain
    \/ CanonicalizeOther

SpecCanon == InitCanon /\ [][NextCanon]_vars

\* The call of the canonicalizer the history keeps.
Call == canon[1]
CanonicalizedAgain == IF canon = <<>> THEN FALSE ELSE Call.again # <<>>
CanonicalizedOther == IF canon = <<>> THEN FALSE ELSE Call.other # <<>>

\* The <<name, value>> pairs of a query written with its "?".
Pairs(query) == parse_qsl_str(IF query = <<>> THEN <<>> ELSE Tail(query))
Count(items, x) == Cardinality({i \in DOMAIN items : items[i] = x})
SamePairsAnyOrder(items, others) ==
    /\ Len(items) = Len(others)
    /\ \A i \in DOMAIN items : Count(items, items[i]) = Count(others, items[i])

\* C19: canonicalization is idempotent: when _normalize_internal_url, or
\* resolve_site_url for the site's root, returns a URL, canonicalizing that
\* URL again returns it unchanged.
C19_CanonIdempotent ==
    CanonicalizedAgain => Call.again[1] = Call.out

\* C19 witness: resolve_site_url resolved a relative URL whose query it had to
\* re-encode, and the result was canonicalized again.
C19_Witness ==
    /\ CanonicalizedAgain
    /\ Call.fn = "resolve_site_url"
    /\ raw.prefix = <<>>
    /\ raw.path = <<"a", ";", "k">>
    /\ raw.query = <<"?", "j", "=", "%26", "k", "&", "k">>
    /\ raw.fragment # <<>>
    /\ Call.out = <<"http", ":", "/", "/", "site.test", "/", "a", "?",
                    "j", "=", "%26", "k", "&", "k", "=">>

\* C20, as the spec states it: two URLs that differ only in the order of
\* their query parameters, the key/value pairs being the same, canonicalize
\* to the same string.
C20_QueryOrderIrrelevant ==
    (CanonicalizedOther /\ SamePairsAnyOrder(Pairs(raw.query), Pairs(Call.other[1])))
        => Call.other_out[1] = Call.out

\* C20, amended: two URLs that differ only in the writing of their query, the
\* key/value pairs being the same and in the same order, canonicalize to the
\* same string.
C20_SamePairsSameOrder ==
    (CanonicalizedOther /\ Pairs(raw.query) = Pairs(Call.other[1]))
        => Call.other_out[1] = Call.out

\* C20 witness: "?k&j=%20" and "?k=&j=%20" name the same pairs in the same
\* order and were canonicalized to the same URL.
C20_Witness ==
    /\ CanonicalizedOther
    /\ raw.query = <<"?", "k", "&", "j", "=", "%20">>
    /\ Call.other[1] = <<"?", "k", "=", "&", "j", "=", "%20">>
    /\ Call.out # NoText
    /\ Call.other_out[1] = Call.out


(***************************************************************************)
(* resolve_site_url for sites registered with and without a root URL.      *)
(***************************************************************************)
\* site.parent_url as register_site stores it: nothing, a URL, a URL with a
\* port and a path, or a host name written without a scheme.
ParentUrls == {NoText,
               ParentUrlStr,
               <<"http", ":", "/", "/", "site.test", ":", "80", "/", "a">>,
               <<"site.test">>}
ResolvePrefixes == Prefixes \cup {<<"http", ":", "/", "/", "site.test", ":", "80">>,
                                  <<"http", ":", "/", "/", ":", "80">>}
ResolveUrls == [prefix : ResolvePrefixes, path : Paths, query : {<<>>, <<"?", "k">>},
                fragment : Fragments, parent_url : ParentUrls]

InitResolve ==
    /\ InitWith(FewDocs, {[site_pages |-> {}, site_map |-> {}]})
    /\ ConcIdle
    /\ AtlasIdle
    /\ IndexIdle
    /\ RefreshIdle
    /\ raw \in ResolveUrls
    /\ canon = <<>>

SpecResolve == InitResolve /\ [][NextCanon]_vars

Resolved == IF canon = <<>> THEN FALSE ELSE Call.fn = "resolve_site_url"
HasSchemeAndHost(url) ==
    urlparse(url, <<>>).scheme # <<>> /\ urlparse(url, <<>>).netloc # <<>>

\* C21: resolve_site_url returns None for a URL without scheme or host when
\* the site has no root URL, and every URL it returns for a site whose root
\* URL names a host has the host of that root.
C21_NeverLeavesRootHost ==
    Resolved =>
        /\ (raw.parent_url = NoText /\ ~HasSchemeAndHost(Text(raw))) => Call.out = NoText
        /\ (hostname_str(raw.parent_url) # <<>> /\ Call.out # NoText)
               => hostname_str(Call.out) = hostname_str(raw.parent_url)

(***************************************************************************)
(* Transitions of SitePage.status.                                         *)
(***************************************************************************)
\* The URLs whose row has status `from` before the step and `to` after it.
StatusStep(from, to) ==
    {r.url : r \in {r \in site_pages :
                      r.status = from /\ \E n \in site_pages' : n.url = r.url /\ n.status = to}}

MarkMissingReconciliation(op) == op.kind = "store" /\ op.mark_missing
Reconciliation(op) == op.kind = "store"
SingleUrlTouch(op) == op.kind \in {"touch_info", "touch_atlas", "touch_embedding"}

\* C23: a row goes from active to gone only in a mark-missing reconciliation
\* whose URL set does not contain its URL, from gone to active only in a
\* reconciliation whose URL set contains its URL or in a touch of its URL,
\* and every status is active or gone.
C23_StatusTransitions ==
    [][/\ \A url \in StatusStep("active", "gone") :
            /\ last_op' # last_op
            /\ MarkMissingReconciliation(last_op')
            /\ url \notin last_op'.urls
       /\ \A url \in StatusStep("gone", "active") :
            /\ last_op' # last_op
            /\ \/ Reconciliation(last_op') /\ url \in last_op'.urls
               \/ SingleUrlTouch(last_op') /\ last_op'.url = url
       /\ \A r \in site_pages' : r.status \in {"active", "gone"}]_vars

\* C23 witness: /b, gone since the crawl at -1, is active again after a touch,
\* and the reconciliation that just ran has marked another page gone.
C23_Witness ==
    /\ MarkMissingReconciliation(last_op)
    /\ \E r \in site_pages : r.status = "gone" /\ r.updated_at = <<last_op.at>>
                             /\ r.url \notin last_op.urls
    /\ \E r \in site_pages : r.url = PageB /\ r.status = "active"
                             /\ r.first_seen_at = <<-2>>

(***************************************************************************)
(* Single-page refresh: refresh_site_info and refresh_site_atlas.          *)
(***************************************************************************)
\* Optional record or response: <<>> is None.
NoRecord == <<>>

\* db_get_site_info / db_get_site_atlas: scalar_one_or_none()
get_record(table, url) ==
    IF \E r \in table : r.url = url
    THEN <<CHOOSE r \in table : r.url = url>>
    ELSE NoRecord

\* existing = None if force else db_get_site_...(site_id, url)
ExistingForAny(force, record) == record
ExistingFor(force, record) == IF force THEN NoRecord ELSE record

\* _extract_meta_from_soup and _normalize_metadata: what the page says of
\* itself is named by its bytes.
extract_meta(url, html) == [url |-> url, title |-> html.body]
normalize_metadata(meta, url) ==
    [path |-> IF url.path = "" THEN "/" ELSE url.path, hostname |-> hostname(url),
     title |-> meta.title]

\* _build_dom_atlas(site_id, url, soup, html): the payload's url, domHash and
\* capturedAt; its elements are those of the document the hash names.
dom_atlas_payload(url, html, t) ==
    [url |-> url, domHash |-> sha1_hexdigest(html), capturedAt |-> t]

\* db_upsert_site_info_record / db_upsert_site_atlas: one record per URL.
upsert_record(table, record) == {r \in table : r.url # record.url} \cup {record}

\* What a refresh did: its arguments, the record it read, the fetch it made
\* (<<>> when it made none) and what it returned.
Refreshed(op, url, force, existing, fetch, response) ==
    [op |-> op, url |-> url, force |-> force, existing |-> existing, fetch |-> fetch,
     response |-> response]

\* The branches of refresh_site_info and refresh_site_atlas after the target
\* URL is known: `table` is the record table, `record_of[html]` the record
\* the operation builds from the page, `field` the refresh timestamp.
refresh(op, table, url, force, record_of, field) ==
    LET existing == ExistingFor(force, get_record(table, url))
    IN  IF existing # NoRecord /\ ~force
        THEN /\ refreshed' = Refreshed(op, url, force, existing, <<>>, existing)
             /\ UNCHANGED <<site_info, site_atlas, site_pages, now, last_op>>
        ELSE \E html \in fetch_html(url) :
               IF html = FetchFailed
               THEN /\ refreshed' = Refreshed(op, url, force, existing, <<html>>,
                                              IF existing # NoRecord THEN existing
                                              ELSE NoRecord)
                    /\ UNCHANGED <<site_info, site_atlas, site_pages, now, last_op>>
               ELSE /\ refreshed' = Refreshed(op, url, force, existing, <<html>>,
                                              <<record_of[html[1]]>>)
                    /\ IF op = "info"
                       THEN /\ site_info' = upsert_record(site_info, record_of[html[1]])
                            /\ UNCHANGED site_atlas
                       ELSE /\ site_atlas' = upsert_record(site_atlas, record_of[html[1]])
                            /\ UNCHANGED site_info
                    /\ site_pages' = touch_site_page(site_pages, url, field, now)
                    /\ last_op' = [kind |-> IF op = "info" THEN "touch_info"
                                            ELSE "touch_atlas",
                                   urls |-> {url}, mark_missing |-> FALSE,
                                   url |-> url, at |-> now]
                    /\ now' = now + 1

\* What a single-page refresh leaves alone.
refresh_aside == <<pc, site_docs, site_map, req, crawl_vars, conc_vars, atlas_vars,
                   index_vars, canon_vars>>

\* refresh_site_info(site_id, url=url, force=force)
RefreshSiteInfo ==
    /\ pc = "idle"
    /\ now < MaxClock
    /\ \E url \in ReqUrls, force \in BOOLEAN :
         LET target_url == resolve_site_url(url)
         IN  IF target_url = NoUrl
             THEN /\ refreshed' = Refreshed("info", target_url, force, NoRecord, <<>>,
                                            NoRecord)
                  /\ UNCHANGED <<site_info, site_atlas, site_pages, now, last_op>>
             ELSE refresh("info", site_info, target_url, force,
                          [html \in site_docs |->
                            [url |-> target_url,
                             meta |-> extract_meta(target_url, html),
                             normalized |->
                               normalize_metadata(extract_meta(target_url, html),
                                                  target_url)]],
                          "info_last_refreshed_at")
    /\ UNCHANGED refresh_aside

\* refresh_site_atlas(site_id, url, force=force)
RefreshSiteAtlas ==
    /\ pc = "idle"
    /\ now < MaxClock
    /\ \E url \in SitePages, force \in BOOLEAN :
         refresh("atlas", site_atlas, url, force,
                 [html \in site_docs |->
                    [url |-> url, atlas |-> dom_atlas_payload(url, html, now),
                     queued_plan_rebuild |-> FALSE]],
                 "atlas_last_refreshed_at")
    /\ UNCHANGED refresh_aside

InitRefresh ==
    /\ InitWith(FewDocs, Inventories)
    /\ ConcIdle
    /\ AtlasIdle
    /\ IndexIdle
    /\ CanonIdle
    /\ RefreshIdle

NextRefresh ==
    \/ RefreshSiteInfo
    \/ RefreshSiteAtlas

SpecRefresh == InitRefresh /\ [][NextRefresh]_vars

\* The step is a single-page refresh whose fetch failed.
FailedRefreshStep ==
    /\ refreshed' # refreshed
    /\ refreshed'.fetch = <<FetchFailed>>

\* C24: a refresh_site_info or refresh_site_atlas whose fetch fails returns
\* None and leaves the info and atlas records and the site's page rows as
\* they were.
C24_FailedFetchIsNoUpdate ==
    [][FailedRefreshStep =>
         /\ refreshed'.response = NoRecord
         /\ site_info' = site_info
         /\ site_atlas' = site_atlas
         /\ site_pages' = site_pages]_vars

\* C24 witness: a forced refresh of a page whose record is stored and whose
\* row has been touched failed to fetch the page.
C24_Witness ==
    /\ refreshed # <<>>
    /\ refreshed.fetch = <<FetchFailed>>
    /\ refreshed.force
    /\ \E r \in site_info \cup site_atlas : r.url = refreshed.url
    /\ \E r \in site_pages : r.url = refreshed.url /\ r.last_seen_at = <<0>>

(***************************************************************************)
(* Storage errors in store_site_map_pages.                                 *)
(***************************************************************************)
\* session_scope(): the work of the block is committed, or rolled back when
\* the block raises.
session_scope(before, after, raised) == IF raised THEN before ELSE after

\* Where the storage error is raised: in db_upsert_site_map_pages, or in the
\* upsert loop or the sweep of db_bulk_upsert_site_pages.
StorageSteps == {"upsert_site_map_pages", "upsert_loop", "mark_gone_sweep"}

\* store_site_map_pages(site_id, pages, mark_missing=...) when the storage
\* raises at `step`: the two tables are written in two session scopes, one
\* after the other, and the exception ends the call.
store_site_map_pages_error(ps, mm, step) ==
    /\ ps # <<>>
    /\ site_map' = session_scope(site_map, upsert_site_map_pages(site_map, ps, mm),
                                 step = "upsert_site_map_pages")
    /\ site_pages' = IF step = "upsert_site_map_pages"
                     THEN site_pages
                     ELSE session_scope(site_pages,
                                        bulk_upsert_site_pages(site_pages,
                                                               page_payload(ps, now), mm, now),
                                        step \in {"upsert_loop", "mark_gone_sweep"})
    /\ now' = now + 1
    /\ last_op' = [kind |-> "store_error", urls |-> {p.url : p \in Range(ps)},
                   mark_missing |-> mm, url |-> NoUrl, at |-> now]

\* The crawl's result is stored and the storage raises.
CrawlStoreError ==
    /\ pc = "crawl"
    /\ ~LoopCond(queue, pages, max_pages)
    /\ \E step \in StorageSteps : store_site_map_pages_error(pages, mark_missing, step)
    /\ pc' = "return"
    /\ UNCHANGED <<site_docs, aside_vars, req, crawl_vars>>

NextStoreError ==
    \/ GetSiteMap
    \/ BuildSiteMap
    \/ CrawlStep
    \/ CrawlStore
    \/ CrawlStoreError
    \/ Return

SpecStoreError == Init /\ [][NextStoreError]_vars

FailedStoreStep ==
    /\ last_op' # last_op
    /\ last_op'.kind = "store_error"

\* C25: after a store_site_map_pages that ended in a storage error the
\* sitemap rows and the page rows are what they were before the call.
C25_FailedStoreChangesNothing ==
    [][FailedStoreStep => (site_map' = site_map /\ site_pages' = site_pages)]_vars

(***************************************************************************)
(* The queue and the fetches of one crawl.                                 *)
(***************************************************************************)
QueueUrls(q) == {q[i][1] : i \in 1..Len(q)}

\* The step is the first of the crawl to discard a candidate.
FirstDropStep == pc = "crawl" /\ ~dropped /\ dropped'

\* C26: the queue of a crawl never holds more than
\* max(fanout * 2, max_pages * fanout) entries, and the step that discards a
\* candidate leaves the queue filled to that budget.
C26_QueueWithinBudget ==
    [][pc' = "crawl" =>
         /\ queue_budget' = Max(SITEMAP_QUEUE_FANOUT * 2, max_pages' * SITEMAP_QUEUE_FANOUT)
         /\ Len(queue') <= queue_budget'
         /\ FirstDropStep => Len(queue') = queue_budget]_vars

\* C26 witness: the start page held more same-site links than the budget;
\* the queue was filled to the budget and the last link, /b, was discarded.
C26_Witness ==
    /\ pc = "crawl"
    /\ dropped
    /\ Len(queue) = queue_budget
    /\ PageB \notin QueueUrls(queue)
    /\ \E f \in fetched : f[3] = HtmlFanOut

FetchedUrls(history) == {f[1] : f \in history}

\* The step is a fetch of the crawl that failed.
FailedFetchStep == pc = "crawl" /\ failed' # failed

\* C27: in one crawl no URL is fetched twice, whether its fetch succeeded or
\* failed; a URL whose fetch failed is in seen and not in the result, and
\* the crawl goes on with the rest of the queue.
C27_EachUrlFetchedAtMostOnce ==
    [][/\ failed' \cap FetchedUrls(fetched') = {}
       /\ \A f, g \in fetched' : f[1] = g[1] => f = g
       /\ Len(pages') = Cardinality(fetched')
       /\ failed' \subseteq seen'
       /\ failed' \cap PageUrls(pages') = {}
       /\ FailedFetchStep => (pc' = "crawl" /\ queue' = Tail(queue) /\ pages' = pages)]_vars

\* C27 witness: the fetch of /a failed although /a was queued twice, and the
\* crawl has ended with other pages in its result.
C27_Witness ==
    /\ pc = "stored"
    /\ PageA \in failed
    /\ \E f \in fetched : f[3] = HtmlDup
    /\ PageB \in PageUrls(pages)

(***************************************************************************)
(* A crawl that returns no page.                                           *)
(***************************************************************************)
\* The step stores the result of a crawl that fetched no page.
EmptyCrawlStoreStep == pc = "crawl" /\ pc' = "stored" /\ pages = <<>>

\* C28: storing the result of a crawl that returned no page changes no page
\* row and no sitemap row, with mark_missing or without.
C28_EmptyCrawlChangesNothing ==
    [][EmptyCrawlStoreStep => (site_pages' = site_pages /\ site_map' = site_map)]_vars

\* C28 witness: a mark-missing crawl whose start page could not be fetched
\* has been stored, and the pages that were active are active.
C28_Witness ==
    /\ pc = "stored"
    /\ pages = <<>>
    /\ mark_missing
    /\ failed # {}
    /\ ActiveUrls(site_pages) = {RootUrl, PageA}
    /\ site_map # {}

(***************************************************************************)
(* Crawls and touches on a site whose pages have atlases and embeddings.   *)
(***************************************************************************)
\* The site's three pages, embedded and captured at time -1.
EmbeddedSite == Stored(<<3, 4>>, <<4, 3>>, <<1, 2, 2>>)
CapturedPages ==
    touch_site_page(
        touch_site_page(
            touch_site_page(EmbeddedSite.site_pages, RootUrl, "atlas_last_refreshed_at", -1),
            PageA, "atlas_last_refreshed_at", -1),
        PageB, "atlas_last_refreshed_at", -1)
CapturedAtlas ==
    {[url |-> url, atlas |-> dom_atlas_payload(url, HtmlLeaf, -1),
      queued_plan_rebuild |-> FALSE] : url \in SitePages}

InitKeep ==
    /\ InitWith(FewDocs,
                {[site_pages |-> CapturedPages,
                  site_map |-> upsert_site_map_pages({}, PastCrawl(<<RootUrl, PageA, PageB>>),
                                                     TRUE)]})
    /\ ConcIdle
    /\ AtlasIdle
    /\ CanonIdle
    /\ embeddings = EmbeddedSite.embeddings
    /\ invocation = <<>>
    /\ site_info = {}
    /\ site_atlas = CapturedAtlas
    /\ refreshed = <<>>

\* search_site_embeddings between two requests; the invocation notes which
\* pages were gone when it ran.
SearchStoredPages ==
    /\ pc = "idle"
    /\ invocation = <<>>
    /\ \E query_embedding \in {<<3, 4>>, <<1, 2, 2>>}, top_k \in {1, MaxTopK} :
         \E m \in search_site_embeddings(embeddings, Vec(query_embedding, 1), top_k) :
            invocation' = <<[kind |-> "search_site_embeddings", top_k |-> <<top_k>>,
                             query |-> query_embedding, raised |-> m.raised,
                             results |-> m.results, gone |-> GoneUrls(site_pages)]>>
    /\ UNCHANGED <<embeddings, site_pages, now, index_aside>>

NextKeep ==
    \/ BuildSiteMap
    \/ CrawlStep
    \/ CrawlStore
    \/ Return
    \/ TouchSitePageInfo
    \/ TouchSitePageAtlas
    \/ TouchSitePageEmbedding
    \/ SearchStoredPages

SpecKeep == InitKeep /\ [][NextKeep]_vars

\* C29: whatever crawls and touches have run, the atlas and embedding
\* records are the stored ones, and a search returns the gone pages as it
\* returns the others: every gone page whose vector has the query's
\* dimensionality is in the result when top_k admits all such vectors.
C29_GonePagesKeepRecords ==
    /\ site_atlas = CapturedAtlas
    /\ embeddings = EmbeddedSite.embeddings
    /\ Ran({"search_site_embeddings"}) =>
         /\ Last.raised = ""
         /\ Cardinality(ResultUrls)
              = Smaller(Last.top_k[1], Cardinality(Matching(Last.query)))
         /\ Last.top_k[1] >= Cardinality(Matching(Last.query)) =>
              \A url \in Last.gone :
                 url \in {r.url : r \in Matching(Last.query)} => url \in ResultUrls

\* C29 witness: /a had been marked gone by a crawl when a search ran; the
\* search returned /a, and the atlas of /a is stored.
C29_Witness ==
    /\ Ran({"search_site_embeddings"})
    /\ PageA \in Last.gone
    /\ PageA \in ResultUrls
    /\ \E r \in site_atlas : r.url = PageA
    /\ last_op.kind = "store" /\ last_op.mark_missing

(***************************************************************************)
(* POST /site/map/embed (routes/site.py): embed_site_map.                  *)
(***************************************************************************)
MaxBatchEnv == 2   \* largest EMBED_BATCH_LIMIT setting tried

\* EMBED_BATCH_LIMIT = max(1, int(os.getenv("EMBED_BATCH_LIMIT", "100")))
EMBED_BATCH_LIMIT(env) == Max(1, env)

\* batch_pages = unique_pages[:batch_limit]
BatchWhole(unique_pages, batch_limit) == unique_pages
Batch(unique_pages, batch_limit) ==
    [i \in 1..Smaller(batch_limit, Len(unique_pages)) |-> unique_pages[i]]
\* pending_records = unique_pages[batch_limit:]
Pending(unique_pages, batch_limit) ==
    [i \in 1..(Len(unique_pages) - Smaller(batch_limit, Len(unique_pages)))
       |-> unique_pages[batch_limit + i]]

HrefC == Url("", "", "/c", <<>>, "")

\* payload.urls of the requests tried: none, a list with a URL written
\* twice and a URL of another host, a list of four pages of which one is
\* not in the sitemap, and a list without a resolvable URL.
EmbedRequests == {<<>>,
                  <<HrefA, HrefAFrag, HrefOffHost, HrefB>>,
                  <<HrefB, HrefA, HrefRoot, HrefC>>,
                  <<HrefOffHost>>}
EmbedOutcomes == {[kind |-> "ok", vector |-> Vec(<<3, 4>>, 1)],
                  [kind |-> "http_error", vector |-> Vec(<<>>, 1)],
                  [kind |-> "not_object", vector |-> Vec(<<>>, 1)]}

\* get_site_map_response(site_id).pages with their meta, in the order the
\* query returns them.
site_map_response_pages(order) ==
    [i \in 1..Len(order) |->
        [url |-> order[i],
         meta |-> IF \E r \in site_pages : r.status = "active"
                  THEN (CHOOSE r \in site_pages : r.url = order[i]).meta
                  ELSE (CHOOSE r \in site_map : r.url = order[i]).meta]]

\* for url in requested_urls: ... of embed_site_map
RECURSIVE unique_pages_loop(_, _, _)
unique_pages_loop(requested_urls, known_pages, acc) ==
    IF requested_urls = <<>> THEN acc
    ELSE Bind(resolve_site_url(<<Head(requested_urls)>>), LAMBDA resolved :
           Bind({i \in 1..Len(known_pages) : known_pages[i].url = resolved}, LAMBDA known :
             Bind(IF known = {} THEN [url |-> resolved, meta |-> NoMeta]
                  ELSE known_pages[CHOOSE i \in known : \A j \in known : i >= j],
                  LAMBDA page :
                    IF resolved = NoUrl
                    THEN unique_pages_loop(Tail(requested_urls), known_pages, acc)
                    ELSE IF resolved \in PageUrls(acc.unique_pages)
                    THEN unique_pages_loop(Tail(requested_urls), known_pages, acc)
                    ELSE unique_pages_loop(Tail(requested_urls), known_pages,
                           [unique_pages |-> Append(acc.unique_pages, page),
                            new_pages |-> IF known = {} THEN Append(acc.new_pages, page)
                                          ELSE acc.new_pages]))))

EmbedResponse(total, embedded, failed_urls, pending_urls) ==
    [totalUrls |-> total, embeddedUrls |-> embedded, failedUrls |-> failed_urls,
     pendingUrls |-> pending_urls]

\* The invocation record of one embed_site_map request.
EmbedInvoked(urls, requested_urls, batch_limit, unique_pages, run, response) ==
    <<[kind |-> "embed_site_map", urls |-> urls, requested_urls |-> requested_urls,
       batch_limit |-> batch_limit, unique_pages |-> unique_pages,
       calls |-> run.calls, raised |-> run.raised, response |-> response]>>

NoCalls == [calls |-> <<>>, raised |-> ""]

\* store_site_map_pages(payload.siteId, new_pages, mark_missing=False), as the
\* tables it leaves and the clock after it.
stored_new_pages(new_pages) ==
    IF new_pages = <<>>
    THEN [site_map |-> site_map, site_pages |-> site_pages, at |-> now]
    ELSE [site_map |-> upsert_site_map_pages(site_map, new_pages, FALSE),
          site_pages |-> bulk_upsert_site_pages(site_pages, page_payload(new_pages, now),
                                                FALSE, now),
          at |-> now + 1]

\* embed_site_map from the line after _load_site_pages: known_pages is what
\* _load_site_pages returned, env the EMBED_BATCH_LIMIT setting.
embed_site_map(urls, known_pages, env) ==
    \E requested_urls \in {IF urls # <<>> THEN urls
                           ELSE [i \in 1..Len(known_pages) |-> known_pages[i].url]} :
    \E sorted \in {unique_pages_loop(requested_urls, known_pages,
                                     [unique_pages |-> <<>>, new_pages |-> <<>>])} :
    \E stored \in {stored_new_pages(sorted.new_pages)} :
    \E batch_limit \in {EMBED_BATCH_LIMIT(env)} :
    \E batch_pages \in {Batch(sorted.unique_pages, batch_limit)} :
    \E pending_urls \in {[i \in 1..Len(Pending(sorted.unique_pages, batch_limit))
                            |-> Pending(sorted.unique_pages, batch_limit)[i].url]} :
        IF requested_urls = <<>> \/ sorted.unique_pages = <<>> \/ batch_pages = <<>>
        THEN /\ invocation' = EmbedInvoked(urls, requested_urls, batch_limit,
                                           sorted.unique_pages, NoCalls,
                                           <<EmbedResponse(Len(sorted.unique_pages), 0, <<>>,
                                                           pending_urls)>>)
             /\ site_map' = stored.site_map
             /\ site_pages' = stored.site_pages
             /\ now' = stored.at
             /\ UNCHANGED embeddings
        ELSE \E outcomes \in [1..Len(batch_pages) -> EmbedOutcomes] :
             \E run \in {embed_pages(batch_pages, outcomes,
                                     [embeddings |-> embeddings,
                                      site_pages |-> stored.site_pages], stored.at)} :
                /\ invocation' =
                      EmbedInvoked(urls, requested_urls, batch_limit, sorted.unique_pages, run,
                         IF run.response = <<>> THEN <<>>
                         ELSE <<EmbedResponse(Len(sorted.unique_pages),
                                              run.response[1].embeddedUrls,
                                              run.response[1].failedUrls,
                                              pending_urls)>>)
                /\ site_map' = stored.site_map
                /\ site_pages' = run.db.site_pages
                /\ embeddings' = run.db.embeddings
                /\ now' = stored.at + 1

\* What embed_site_map leaves alone, beside the position of the worker and
\* the locals of the crawl.
embed_aside == <<site_docs, last_op, conc_vars, atlas_vars, canon_vars, refresh_vars>>

\* _load_site_pages(site_id, force_sitemap=True) on a site without pages:
\* _build_full_sitemap(site_id, force=True) crawls the site from its root.
EmbedLoadSitePages ==
    /\ pc = "idle"
    /\ invocation = <<>>
    /\ site_map_response_urls = {}
    /\ resolve_site_url(NoneUrl) # NoUrl
    /\ generate_site_map(resolve_site_url(NoneUrl), NoneInt, NoneInt, TRUE)
    /\ req' = [route |-> "embed", url |-> NoneUrl, depth |-> NoneInt, limit |-> NoneInt,
               force |-> TRUE]
    /\ UNCHANGED <<now, site_docs, aside_vars, site_pages, site_map, last_op>>

\* The request goes on with the pages of the sitemap it has built.
EmbedBuiltSiteMap ==
    /\ pc = "stored"
    /\ req.route = "embed"
    /\ \E env \in 0..MaxBatchEnv : embed_site_map(<<>>, pages, env)
    /\ pc' = "return"
    /\ UNCHANGED <<req, crawl_vars, embed_aside>>

\* A request that names URLs, or one for a site that has pages.
EmbedSiteMap ==
    /\ pc = "idle"
    /\ invocation = <<>>
    /\ \E urls \in EmbedRequests, env \in 0..MaxBatchEnv :
         /\ urls = <<>> => site_map_response_urls # {}
         /\ \E order \in Orderings(site_map_response_urls) :
               embed_site_map(urls, site_map_response_pages(order), env)
    /\ UNCHANGED <<pc, req, crawl_vars, embed_aside>>

\* The response of the request that built the sitemap is returned.
EmbedReturn == req.route = "embed" /\ pc = "return" /\ Return

InitEmbed ==
    /\ InitWith(FewDocs, Inventories)
    /\ AsideIdle

NextEmbed ==
    \/ EmbedLoadSitePages
    \/ CrawlStep
    \/ CrawlStore
    \/ EmbedBuiltSiteMap
    \/ EmbedSiteMap
    \/ EmbedReturn

SpecEmbed == InitEmbed /\ [][NextEmbed]_vars

SeqUrls(urls) == {urls[i] : i \in 1..Len(urls)}
NoUrlTwice(urls) == \A i, j \in 1..Len(urls) : urls[i] = urls[j] => i = j

\* C30: every response of embed_site_map has embeddedUrls + len(failedUrls)
\* + len(pendingUrls) = totalUrls, the number of distinct resolvable
\* requested URLs; no URL is failed or pending twice or both, every such URL is
\* attempted or pending and none both, and at most EMBED_BATCH_LIMIT URLs
\* are attempted.
C30_EveryUrlAccountedOnce ==
    (Ran({"embed_site_map"}) /\ Last.response # <<>>) =>
        LET response == Last.response[1]
            resolvable == {resolve_site_url(<<url>>) : url \in SeqUrls(Last.requested_urls)}
                              \ {NoUrl}
            attempted == {text[1] : text \in SeqUrls(Last.calls)}
        IN  /\ response.embeddedUrls + Len(response.failedUrls) + Len(response.pendingUrls)
                 = response.totalUrls
            /\ response.totalUrls = Cardinality(resolvable)
            /\ NoUrlTwice(response.failedUrls)
            /\ NoUrlTwice(response.pendingUrls)
            /\ NoUrlTwice(Last.calls)
            /\ SeqUrls(response.failedUrls) \subseteq attempted
            /\ response.embeddedUrls = Cardinality(attempted \ SeqUrls(response.failedUrls))
            /\ attempted \cap SeqUrls(response.pendingUrls) = {}
            /\ attempted \cup SeqUrls(response.pendingUrls) = resolvable
            /\ Len(Last.calls) <= Last.batch_limit

\* C30 witness: of four requested pages two were attempted, one of them
\* failing, and two are pending.
C30_Witness ==
    /\ Ran({"embed_site_map"})
    /\ Last.response # <<>>
    /\ Last.response[1].totalUrls = 4
    /\ Last.response[1].embeddedUrls = 1
    /\ Len(Last.response[1].failedUrls) = 1
    /\ Len(Last.response[1].pendingUrls) = 2

====
